---------------------------- MODULE Spec2Model ----------------------------
(***************************************************************************)
(* Model of the hectors text editor core: Row (src/src/row.rs), File       *)
(* (src/src/file.rs) and the key handling of Editor (src/src/editor.rs).   *)
(*                                                                         *)
(* A String is a sequence of chars; a char is a one-letter TLA+ string.    *)
(* The alphabet holds two ordinary one-byte chars ("a" and the space), one *)
(* Grapheme_Extend char "M" (U+0301 COMBINING ACUTE ACCENT, two bytes) and *)
(* one Prepend char "P" (U+0600 ARABIC NUMBER SIGN, two bytes), so that    *)
(* chars, bytes and grapheme clusters are three different units, as they   *)
(* are for the unicode_segmentation crate the code uses.                   *)
(***************************************************************************)
EXTENDS Integers, Sequences, FiniteSets, TLC

\* ------------------------------------------------------------------ bounds
MaxLen == 3
MaxQuery == 2
MaxFileRows == 3
MaxFileChars == 2
MaxOpenLen == 1
MaxHlLen == 3
MaxHlRows == 2
MaxBufRows == 2
MaxBufChars == 2
MaxSearchRows == 3
MaxSearchChars == 3
MaxEdRows == 2
MaxEdChars == 2
TermHeight == 2
TermWidth == 2

\* ------------------------------------------------------------------ chars
Chars == {"a", " ", "M", "P"}
NL == "\n"

IsExtend(c) == c = "M"
IsPrepend(c) == c = "P"

\* UTF-8 width of a char.
ByteLen(c) == IF c \in {"M", "P"} THEN 2 ELSE 1

RECURSIVE StrByteLen(_)
StrByteLen(s) == IF s = <<>> THEN 0 ELSE ByteLen(Head(s)) + StrByteLen(Tail(s))

\* Byte offset of the char at 0-based char index i of s.
ByteOffset(s, i) == StrByteLen(SubSeq(s, 1, i))

Min(a, b) == IF a < b THEN a ELSE b

\* Option<T>
None == [some |-> FALSE, val |-> 0]
Some(v) == [some |-> TRUE, val |-> v]

\* Option<String>::None
NoWord == [some |-> FALSE, val |-> <<>>]

\* All strings over alphabet A of length at most n.
StringsUpTo(A, n) == UNION {[1..k -> A] : k \in 0..n}

\* ------------------------------------------------- grapheme segmentation
\* UAX #29 extended grapheme clusters, for the classes of the alphabet:
\* GB9 (no break before Extend) and GB9b (no break after Prepend); a break
\* everywhere else (GB1, GB2, GB999).  i is a 1-based char index of s.
BreakBefore(s, i) == i = 1 \/ ~(IsExtend(s[i]) \/ IsPrepend(s[i-1]))

\* Number of chars of the first grapheme cluster of the non-empty string s.
FirstClusterLen(s) ==
    CHOOSE n \in 1..Len(s) :
        /\ n = Len(s) \/ BreakBefore(s, n + 1)
        /\ \A k \in 2..n : ~BreakBefore(s, k)

\* s.graphemes(true): the grapheme clusters of s, in order.
RECURSIVE Graphemes(_)
Graphemes(s) ==
    IF s = <<>> THEN <<>>
    ELSE LET n == FirstClusterLen(s)
         IN  <<SubSeq(s, 1, n)>> \o Graphemes(SubSeq(s, n + 1, Len(s)))

\* s.graphemes(true).count()
GraphemeCount(s) == Len(Graphemes(s))

\* Pushing the clusters of gs, in order, onto an empty String.
RECURSIVE Concat(_)
Concat(gs) == IF gs = <<>> THEN <<>> ELSE Head(gs) \o Concat(Tail(gs))

\* s.grapheme_indices(true): the byte offset of each cluster of s.
GraphemeByteIndices(s) ==
    LET g == Graphemes(s)
    IN  [k \in 1..Len(g) |-> StrByteLen(Concat(SubSeq(g, 1, k - 1)))]

\* ------------------------------------------------------- str::find/rfind
\* 0-based char indices at which needle occurs in hay.
CharMatches(hay, needle) ==
    {i \in 0..(Len(hay) - Len(needle)) :
        SubSeq(hay, i + 1, i + Len(needle)) = needle}

\* str::find: byte index of the first occurrence.
StrFind(hay, needle) ==
    LET m == CharMatches(hay, needle)
    IN  IF m = {} THEN None
        ELSE Some(ByteOffset(hay, CHOOSE i \in m : \A j \in m : i <= j))

\* str::rfind: byte index of the last occurrence.
StrRFind(hay, needle) ==
    LET m == CharMatches(hay, needle)
    IN  IF m = {} THEN None
        ELSE Some(ByteOffset(hay, CHOOSE i \in m : \A j \in m : i >= j))

\* ------------------------------------------------------------------ Row
\* The highlight array and the is_highlighted marker are part of the
\* struct; no edit operation reads them.
Row(s, n) == [string |-> s, len |-> n, highlight |-> <<>>, is_highlighted |-> FALSE]

\* #[derive(Default)]
Row_default == Row(<<>>, 0)

\* impl From<&str> for Row
Row_from(slice) == Row(slice, GraphemeCount(slice))

\* Row::insert
Row_insert(r, at, c) ==
    IF at >= r.len
    THEN [r EXCEPT !.string = Append(r.string, c), !.len = r.len + 1]
    ELSE LET g == Graphemes(r.string)
             piece(k) == IF k - 1 = at THEN <<c>> \o g[k] ELSE g[k]
         IN  [r EXCEPT !.string = Concat([k \in 1..Len(g) |-> piece(k)]),
                       !.len = Len(g) + (IF at < Len(g) THEN 1 ELSE 0)]

\* Row::delete
Row_delete(r, at) ==
    IF at >= r.len
    THEN r
    ELSE LET g == Graphemes(r.string)
             kept == [k \in 1..Len(g) |-> IF k - 1 # at THEN g[k] ELSE <<>>]
         IN  [r EXCEPT !.string = Concat(kept),
                       !.len = Cardinality({k \in 1..Len(g) : k - 1 # at})]

\* Row::append
Row_append(r, new) ==
    [r EXCEPT !.string = r.string \o new.string, !.len = r.len + new.len]

\* Row::prepend_str: the length grows by the BYTE length of s.
Row_prepend_str(r, s) ==
    [r EXCEPT !.string = s \o r.string, !.len = r.len + StrByteLen(s)]

\* Row::split: the truncated row and the returned row.
Row_split(r, at) ==
    LET g == Graphemes(r.string)
        n == Min(at, Len(g))
    IN  [row |-> [r EXCEPT !.string = Concat(SubSeq(g, 1, n)),
                           !.len = n,
                           !.is_highlighted = FALSE],
         new |-> Row(Concat(SubSeq(g, n + 1, Len(g))), Len(g) - n)]

\* Row::get_prefix_len: leading clusters equal to the string s.
Row_get_prefix_len(r, s) ==
    LET g == Graphemes(r.string)
    IN  Cardinality({k \in 1..Len(g) : \A j \in 1..k : g[j] = s})

\* Row::find
Row_find(r, query, at, direction) ==
    IF at > r.len \/ query = <<>>
    THEN None
    ELSE LET start == IF direction = "Forward" THEN at ELSE 0
             end == IF direction = "Forward" THEN r.len ELSE at
             g == Graphemes(r.string)
             \* .skip(start).take(end-start).collect()
             substr == Concat(SubSeq(g, start + 1, Min(end, Len(g))))
             matching_byte_index ==
                 IF direction = "Forward" THEN StrFind(substr, query)
                                          ELSE StrRFind(substr, query)
             idx == GraphemeByteIndices(substr)
             hits == {k \in 1..Len(idx) : idx[k] = matching_byte_index.val}
         IN  IF matching_byte_index.some /\ hits # {}
             THEN Some(start + (CHOOSE k \in hits : TRUE) - 1)
             ELSE None

\* ------------------------------------------------------- Row::highlight
\* fn is_separator, on the chars the model uses: the listed punctuation and
\* the whitespace; no other char of the model is a control or a space.
Separators ==
    {";", "{", "}", " ", "<", ">", "(", ")", "[", "]", ",", ".", "+", "-", "/",
     "*", "=", "%", "\t"}

is_separator(c) == c \in Separators

\* char::is_ascii_digit
is_ascii_digit(c) == c \in {"0", "1", "2", "3", "4", "5", "6", "7", "8", "9"}

\* n pushes of the class x.
Repeat(x, n) == [k \in 1..n |-> x]

MinOf(S) == CHOOSE n \in S : \A m \in S : n <= m

\* What a highlight_* helper leaves: whether it matched, the highlight array
\* and the index.
Scanned(ok, highlight, index) == [ok |-> ok, highlight |-> highlight, index |-> index]

\* The 0-based indices n of chars, from..Len-1, with chars[n-1] == '*' and
\* chars[n] == '/'.
CloseAt(chars, from) ==
    {n \in from..(Len(chars) - 1) : n >= 1 /\ chars[n] = "*" /\ chars[n + 1] = "/"}

\* Row::highlight_ml_comment_end
Row_highlight_ml_comment_end(hl, highlight, index, chars) ==
    IF hl.multiline_comments /\ Len(chars) > 0
    THEN IF CloseAt(chars, 1) # {}
         THEN Scanned(TRUE, highlight \o Repeat("MlComment", MinOf(CloseAt(chars, 1))),
                      index + MinOf(CloseAt(chars, 1)))
         ELSE Scanned(FALSE, highlight \o Repeat("MlComment", Len(chars) - 1), index)
    ELSE Scanned(FALSE, highlight, index)

\* The count of Row::highlight_ml_comment_beginning: the chars from the
\* opener through the close, or through the end of the row.
MlCommentCount(index, chars) ==
    IF CloseAt(chars, index + 2) # {}
    THEN MinOf(CloseAt(chars, index + 2)) - index + 1
    ELSE Len(chars) - index

\* Row::highlight_ml_comment_beginning: (has_advanced, count >= len - 1) as
\* ok and ended.
Row_highlight_ml_comment_beginning(hl, highlight, index, chars) ==
    IF /\ hl.multiline_comments
       /\ index + 1 < Len(chars)
       /\ chars[index + 1] = "/"
       /\ chars[index + 2] = "*"
    THEN [ok |-> TRUE,
          ended |-> MlCommentCount(index, chars) >= Len(chars) - 1,
          highlight |-> highlight \o Repeat("MlComment", MlCommentCount(index, chars)),
          index |-> index + MlCommentCount(index, chars)]
    ELSE [ok |-> FALSE, ended |-> FALSE, highlight |-> highlight, index |-> index]

\* A line comment that covers its two slashes only.
Row_highlight_comment_marker(hl, highlight, index, chars) ==
    IF /\ hl.comments
       /\ index + 1 < Len(chars)
       /\ chars[index + 1] = "/"
       /\ chars[index + 2] = "/"
    THEN Scanned(TRUE, highlight \o Repeat("Comment", 2), index + 2)
    ELSE Scanned(FALSE, highlight, index)

\* Row::highlight_comment
Row_highlight_comment(hl, highlight, index, chars) ==
    IF /\ hl.comments
       /\ index + 1 < Len(chars)
       /\ chars[index + 1] = "/"
       /\ chars[index + 2] = "/"
    THEN Scanned(TRUE, highlight \o Repeat("Comment", Len(chars) - index), Len(chars))
    ELSE Scanned(FALSE, highlight, index)

\* The scan of highlight_strings and highlight_character: the counts at
\* which the char quote stands after the one at index.
QuoteCounts(quote, index, chars) ==
    {count \in 1..(Len(chars) - index - 1) : chars[index + count + 1] = quote}

\* A literal that runs to the end of the row when it is not closed.
Row_highlight_quoted_open(enabled, quote, class, highlight, index, chars) ==
    IF /\ enabled
       /\ index < Len(chars)
       /\ chars[index + 1] = quote
    THEN IF QuoteCounts(quote, index, chars) # {}
         THEN Scanned(TRUE,
                      highlight \o Repeat(class, MinOf(QuoteCounts(quote, index, chars)) + 1),
                      index + MinOf(QuoteCounts(quote, index, chars)) + 1)
         ELSE Scanned(TRUE, highlight \o Repeat(class, Len(chars) - index), Len(chars))
    ELSE Scanned(FALSE, highlight, index)

\* A literal between two chars quote, the first at index.
Row_highlight_quoted(enabled, quote, class, highlight, index, chars) ==
    IF /\ enabled
       /\ index < Len(chars)
       /\ chars[index + 1] = quote
       /\ QuoteCounts(quote, index, chars) # {}
    THEN Scanned(TRUE,
                 highlight \o Repeat(class, MinOf(QuoteCounts(quote, index, chars)) + 1),
                 index + MinOf(QuoteCounts(quote, index, chars)) + 1)
    ELSE Scanned(FALSE, highlight, index)

\* Row::highlight_strings
Row_highlight_strings(hl, highlight, index, chars) ==
    Row_highlight_quoted(hl.strings, "\"", "String", highlight, index, chars)

\* Row::highlight_character
Row_highlight_character(hl, highlight, index, chars) ==
    Row_highlight_quoted(hl.characters, "'", "Character", highlight, index, chars)

\* The count of the scans that start behind the char at index: 1 plus the
\* number of chars after it, up to the first that stops the scan: a
\* separator (keywords), or a char that is no digit (numbers).
RunCount(digits, index, chars) ==
    MinOf({count \in 1..(Len(chars) - index) :
              \/ index + count >= Len(chars)
              \/ IF digits
                 THEN ~is_ascii_digit(chars[index + count + 1])
                 ELSE is_separator(chars[index + count + 1])})

\* A run whose leading separator takes the class of the run.
Row_highlight_run_whole(class, count, highlight, index) ==
    Scanned(TRUE, highlight \o Repeat(class, count), index + count)

\* The char at index and the count - 1 chars after it, as None and class.
Row_highlight_run(class, count, highlight, index) ==
    Scanned(TRUE, highlight \o <<"None">> \o Repeat(class, count - 1), index + count)

\* Row::highlight_numbers with its count.
Row_highlight_numbers_count(count, highlight, index, chars) ==
    IF index + count < Len(chars)
    THEN IF is_separator(chars[index + count + 1])
         THEN Row_highlight_run("Number", count, highlight, index)
         ELSE Scanned(FALSE, highlight, index)
    ELSE IF is_ascii_digit(chars[index + count])
         THEN Row_highlight_run("Number", count, highlight, index)
         ELSE Scanned(FALSE, highlight, index)

\* Row::highlight_numbers
Row_highlight_numbers(hl, highlight, index, chars) ==
    IF hl.numbers
    THEN Row_highlight_numbers_count(RunCount(TRUE, index, chars),
                                     highlight, index, chars)
    ELSE Scanned(FALSE, highlight, index)

\* The common body of highlight_primary_keywords and
\* highlight_secondary_keywords, with its count.
Row_highlight_keywords_count(keywords, class, count, highlight, index, chars) ==
    IF \E k \in 1..Len(keywords) :
           keywords[k] = SubSeq(chars, index + 2, index + count)
    THEN Row_highlight_run(class, count, highlight, index)
    ELSE Scanned(FALSE, highlight, index)

Row_highlight_keywords(keywords, class, highlight, index, chars) ==
    IF keywords # <<>>
    THEN Row_highlight_keywords_count(keywords, class,
                                      RunCount(FALSE, index, chars),
                                      highlight, index, chars)
    ELSE Scanned(FALSE, highlight, index)

\* Row::highlight_primary_keywords
Row_highlight_primary_keywords(hl, highlight, index, chars) ==
    Row_highlight_keywords(hl.keywords1, "Keyword1", highlight, index, chars)

\* Row::highlight_secondary_keywords
Row_highlight_secondary_keywords(hl, highlight, index, chars) ==
    Row_highlight_keywords(hl.keywords2, "Keyword2", highlight, index, chars)

\* a || b on two helper calls: b runs only if a did not match.
OrElse(a, b) == IF a.ok THEN a ELSE b

\* The part of the loop body of Row::highlight behind the multiline comment
\* block, up to the push of Highlight::None.
Row_highlight_token(hl, highlight, index, chars) ==
    OrElse(Row_highlight_comment(hl, highlight, index, chars),
    OrElse(Row_highlight_strings(hl, highlight, index, chars),
    OrElse(Row_highlight_character(hl, highlight, index, chars),
           IF is_separator(chars[index + 1])
           THEN OrElse(Row_highlight_numbers(hl, highlight, index, chars),
                OrElse(Row_highlight_primary_keywords(hl, highlight, index, chars),
                       Row_highlight_secondary_keywords(hl, highlight, index, chars)))
           ELSE Scanned(FALSE, highlight, index))))

\* The while loop of Row::highlight: the highlight array it leaves and
\* whether it left by return true.
RECURSIVE Row_highlight_loop(_, _, _, _, _)
RECURSIVE Row_highlight_after_end(_, _, _)
RECURSIVE Row_highlight_after_beginning(_, _, _, _, _, _)
RECURSIVE Row_highlight_after_token(_, _, _, _, _, _)
Row_highlight_loop(chars, hl, highlight, index, in_ml_comment) ==
    IF index >= Len(chars)
    THEN [highlight |-> highlight, returned |-> FALSE]
    ELSE IF hl.multiline_comments /\ in_ml_comment
    THEN Row_highlight_after_end(chars, hl,
             Row_highlight_ml_comment_end(hl, highlight, index, chars))
    ELSE IF hl.multiline_comments
    THEN Row_highlight_after_beginning(chars, hl, highlight, index, in_ml_comment,
             Row_highlight_ml_comment_beginning(hl, highlight, index, chars))
    ELSE Row_highlight_after_token(chars, hl, highlight, index, in_ml_comment,
             Row_highlight_token(hl, highlight, index, chars))

Row_highlight_after_end(chars, hl, e) ==
    IF e.ok
    THEN Row_highlight_loop(chars, hl, e.highlight, e.index, FALSE)
    ELSE [highlight |-> e.highlight, returned |-> TRUE]

Row_highlight_after_beginning(chars, hl, highlight, index, in_ml_comment, b) ==
    IF b.ok /\ b.ended
    THEN [highlight |-> b.highlight, returned |-> TRUE]
    ELSE IF b.ok
    THEN Row_highlight_loop(chars, hl, b.highlight, b.index, in_ml_comment)
    ELSE Row_highlight_after_token(chars, hl, highlight, index, in_ml_comment,
             Row_highlight_token(hl, highlight, index, chars))

Row_highlight_after_token(chars, hl, highlight, index, in_ml_comment, t) ==
    IF t.ok
    THEN Row_highlight_loop(chars, hl, t.highlight, t.index, in_ml_comment)
    ELSE Row_highlight_loop(chars, hl, Append(highlight, "None"), index + 1,
                            in_ml_comment)

\* The while loop of Row::highlight_match
RECURSIVE Row_highlight_match_loop(_, _, _, _)
RECURSIVE Row_highlight_match_found(_, _, _, _)
Row_highlight_match_loop(r, word, highlight, index) ==
    Row_highlight_match_found(r, word, highlight,
                              Row_find(r, word, index, "Forward"))

Row_highlight_match_found(r, word, highlight, smatch) ==
    IF smatch.some
    THEN Row_highlight_match_loop(r, word,
             [k \in 1..Len(highlight) |->
                 IF k - 1 >= smatch.val /\ k - 1 < smatch.val + GraphemeCount(word)
                 THEN "Match" ELSE highlight[k]],
             smatch.val + GraphemeCount(word))
    ELSE highlight

\* Row::highlight_match; word is an Option<String>.
Row_highlight_match(r, word, highlight) ==
    IF word.some /\ word.val # <<>>
    THEN Row_highlight_match_loop(r, word.val, highlight, 0)
    ELSE highlight

\* Row::highlight once the loop is left with the result s.
Row_highlight_end(r, word, s) ==
    IF s.returned
    THEN [row |-> [r EXCEPT !.highlight = s.highlight], ret |-> TRUE]
    ELSE [row |-> [r EXCEPT !.highlight = Row_highlight_match(r, word, s.highlight)],
          ret |-> FALSE]

\* Row::highlight: the row and the returned bool.
Row_highlight(r, hl, word, start_with_comment) ==
    Row_highlight_end(r, word,
        Row_highlight_loop(r.string, hl, <<>>, 0, start_with_comment))

\* ------------------------------------------------------ HighlightOptions
\* Option<FileType>, Option<String>: None is NoType, NoName.
NoType == "None"
NoName == "None"

\* The names a file is opened or saved under, and what
\* Path::new(filename).extension() gives for each.
Filenames == {"x.rs", "x.c", "x.txt", "x.md", "x"}

Extension(filename) ==
    CASE filename = "x.rs" -> "rs"
      [] filename = "x.c" -> "c"
      [] filename = "x.txt" -> "txt"
      [] filename = "x.md" -> "md"
      [] OTHER -> NoName

\* HighlightOptions::set_filetype
HighlightOptions_set_filetype(filename) ==
    CASE Extension(filename) = "rs" -> "Rust"
      [] Extension(filename) = "c" -> "C"
      [] Extension(filename) = "txt" -> "Text"
      [] OTHER -> NoType

HighlightOptions(file_type, numbers, strings, characters, comments, multiline_comments, keywords1, keywords2) ==
    [file_type |-> file_type, numbers |-> numbers, strings |-> strings,
     characters |-> characters, comments |-> comments,
     multiline_comments |-> multiline_comments,
     keywords1 |-> keywords1, keywords2 |-> keywords2]

\* #[derive(Default)]
HighlightOptions_default ==
    HighlightOptions(NoType, FALSE, FALSE, FALSE, FALSE, FALSE, <<>>, <<>>)

\* The keyword lists of HighlightOptions::from, each word as its chars.
RustKeywords1 ==
    <<<<"a", "s">>, <<"b", "r", "e", "a", "k">>,
      <<"c", "o", "n", "s", "t">>,
      <<"c", "o", "n", "t", "i", "n", "u", "e">>,
      <<"c", "r", "a", "t", "e">>, <<"e", "l", "s", "e">>,
      <<"e", "n", "u", "m">>, <<"e", "x", "t", "e", "r", "n">>,
      <<"f", "a", "l", "s", "e">>, <<"f", "n">>, <<"f", "o", "r">>,
      <<"i", "f">>, <<"i", "m", "p", "l">>, <<"i", "n">>,
      <<"l", "e", "t">>, <<"l", "o", "o", "p">>,
      <<"m", "a", "t", "c", "h">>, <<"m", "o", "d">>,
      <<"m", "o", "v", "e">>, <<"m", "u", "t">>, <<"p", "u", "b">>,
      <<"r", "e", "f">>, <<"r", "e", "t", "u", "r", "n">>,
      <<"s", "e", "l", "f">>, <<"S", "e", "l", "f">>,
      <<"s", "t", "a", "t", "i", "c">>, <<"s", "t", "r", "u", "c", "t">>,
      <<"s", "u", "p", "e", "r">>, <<"t", "r", "a", "i", "t">>,
      <<"t", "r", "u", "e">>, <<"t", "y", "p", "e">>,
      <<"u", "n", "s", "a", "f", "e">>, <<"u", "s", "e">>,
      <<"w", "h", "e", "r", "e">>, <<"w", "h", "i", "l", "e">>,
      <<"d", "y", "n">>, <<"a", "b", "s", "t", "r", "a", "c", "t">>,
      <<"b", "e", "c", "o", "m", "e">>, <<"b", "o", "x">>, <<"d", "o">>,
      <<"f", "i", "n", "a", "l">>, <<"m", "a", "c", "r", "o">>,
      <<"o", "v", "e", "r", "r", "i", "d", "e">>, <<"p", "r", "i", "v">>,
      <<"t", "y", "p", "e", "o", "f">>,
      <<"u", "n", "s", "i", "z", "e", "d">>,
      <<"v", "i", "r", "t", "u", "a", "l">>, <<"y", "i", "e", "l", "d">>,
      <<"a", "s", "y", "n", "c">>, <<"a", "w", "a", "i", "t">>,
      <<"t", "r", "y">>>>

RustKeywords2 ==
    <<<<"b", "o", "o", "l">>, <<"c", "h", "a", "r">>, <<"i", "8">>,
      <<"i", "1", "6">>, <<"i", "3", "2">>, <<"i", "6", "4">>,
      <<"i", "s", "i", "z", "e">>, <<"u", "8">>, <<"u", "1", "6">>,
      <<"u", "3", "2">>, <<"u", "6", "4">>, <<"u", "s", "i", "z", "e">>,
      <<"f", "3", "2">>, <<"f", "6", "4">>>>

CKeywords1 ==
    <<<<"s", "w", "i", "t", "c", "h">>, <<"i", "f">>,
      <<"w", "h", "i", "l", "e">>, <<"f", "o", "r">>,
      <<"b", "r", "e", "a", "k">>,
      <<"c", "o", "n", "t", "i", "n", "u", "e">>,
      <<"r", "e", "t", "u", "r", "n">>, <<"e", "l", "s", "e">>,
      <<"s", "t", "r", "u", "c", "t">>, <<"u", "n", "i", "o", "n">>,
      <<"t", "y", "p", "e", "d", "e", "f">>,
      <<"s", "t", "a", "t", "i", "c">>, <<"e", "n", "u", "m">>,
      <<"c", "a", "s", "e">>, <<"#", "i", "n", "c", "l", "u", "d", "e">>,
      <<"#", "d", "e", "f", "i", "n", "e">>>>

CKeywords2 ==
    <<<<"i", "n", "t">>, <<"l", "o", "n", "g">>,
      <<"d", "o", "u", "b", "l", "e">>, <<"f", "l", "o", "a", "t">>,
      <<"c", "h", "a", "r">>, <<"u", "n", "s", "i", "g", "n", "e", "d">>,
      <<"s", "i", "g", "n", "e", "d">>, <<"v", "o", "i", "d">>>>

\* HighlightOptions::from
HighlightOptions_from(filename) ==
    CASE HighlightOptions_set_filetype(filename) = "Rust" ->
             HighlightOptions(HighlightOptions_set_filetype(filename),
                              TRUE, TRUE, TRUE, TRUE, TRUE,
                              RustKeywords1, RustKeywords2)
      [] HighlightOptions_set_filetype(filename) = "C" ->
             HighlightOptions("C", TRUE, TRUE, TRUE, TRUE, TRUE,
                              CKeywords1, CKeywords2)
      [] OTHER -> HighlightOptions_default

\* ------------------------------------------------------------ the state
VARIABLES
    row,        \* SpecRow: the Row under edit
    tail,       \* SpecRow: the Row returned by the latest split
    rows,       \* File.rows
    dirty,      \* File.dirty
    cursor,     \* Editor.cursor
    offset,     \* Editor.offset
    quit_times, \* Editor.quit_times
    should_quit,\* Editor.should_quit
    filename,   \* File.filename
    hl_opts,    \* File.hl_opts
    highlighted_word, \* Editor.highlighted_word
    ctrl_q_run, \* history: the Key::Ctrl('q') events the main loop handled in a row
    panicked,   \* the process aborted on an out-of-bounds index
    last        \* the latest call: its name, arguments and return value

vars == <<row, tail, rows, dirty, cursor, offset, quit_times, should_quit,
          filename, hl_opts, highlighted_word, ctrl_q_run, panicked, last>>

Position(px, py) == [x |-> px, y |-> py]

Directions == {"Forward", "Backward"}

\* ================================================================ SpecRow
\* One Row driven through its public operations with arbitrary arguments.
RowCall(op, at, c, query, direction, res, pre) ==
    [op |-> op, at |-> at, c |-> c, query |-> query, direction |-> direction,
     res |-> res, pre |-> pre]

NoRowCall == RowCall("none", 0, "", <<>>, "Forward", None, Row_default)

RowIndices == 0..(MaxLen + 1)

InitRow ==
    /\ row \in {Row_from(s) : s \in StringsUpTo(Chars, MaxLen)}
    /\ tail = Row_default
    /\ rows = <<>>
    /\ dirty = FALSE
    /\ cursor = Position(0, 0)
    /\ offset = Position(0, 0)
    /\ quit_times = 0
    /\ should_quit = FALSE
    /\ highlighted_word = NoWord
    /\ ctrl_q_run = 0
    /\ filename = NoName
    /\ hl_opts = HighlightOptions_default
    /\ panicked = FALSE
    /\ last = NoRowCall

RowFrame ==
    UNCHANGED <<rows, dirty, cursor, offset, quit_times, should_quit, filename,
                hl_opts, highlighted_word, ctrl_q_run, panicked>>

\* row.insert(at, c)
RowInsert ==
    \E at \in RowIndices, c \in Chars :
        /\ Len(row.string) < MaxLen
        /\ row' = Row_insert(row, at, c)
        /\ tail' = Row_default
        /\ last' = RowCall("insert", at, c, <<>>, "Forward", None, row)
        /\ RowFrame

\* row.delete(at)
RowDelete ==
    \E at \in RowIndices :
        /\ row' = Row_delete(row, at)
        /\ tail' = Row_default
        /\ last' = RowCall("delete", at, "", <<>>, "Forward", None, row)
        /\ RowFrame

\* tail = row.split(at)
RowSplit ==
    \E at \in RowIndices :
        /\ row' = Row_split(row, at).row
        /\ tail' = Row_split(row, at).new
        /\ last' = RowCall("split", at, "", <<>>, "Forward", None, row)
        /\ RowFrame

\* row.append(&tail), right after tail = row.split(at)
RowAppendTail ==
    /\ last.op = "split"
    /\ row' = Row_append(row, tail)
    /\ tail' = Row_default
    /\ last' = RowCall("append_tail", last.at, "", <<>>, "Forward", None, row)
    /\ RowFrame

\* row.append(&Row::from(s))
RowAppendOther ==
    \E s \in StringsUpTo(Chars, MaxLen) :
        /\ Len(row.string) + Len(s) <= MaxLen
        /\ row' = Row_append(row, Row_from(s))
        /\ tail' = Row_default
        /\ last' = RowCall("append", 0, "", s, "Forward", None, row)
        /\ RowFrame

NextRow ==
    \/ RowInsert
    \/ RowDelete
    \/ RowSplit
    \/ RowAppendTail
    \/ RowAppendOther

SpecRow == InitRow /\ [][NextRow]_vars

\* =============================================================== SpecFind
\* Row::find as a function of its inputs: the row (as File::open builds
\* it), the query, the start column and the direction are drawn by the
\* initial state; the one action is the call.
Queries == StringsUpTo({"a", "M"}, MaxQuery)

InitFind ==
    /\ row \in {Row_from(s) : s \in StringsUpTo(Chars, MaxLen)}
    /\ tail = Row_default
    /\ rows = <<>>
    /\ dirty = FALSE
    /\ cursor = Position(0, 0)
    /\ offset = Position(0, 0)
    /\ quit_times = 0
    /\ should_quit = FALSE
    /\ highlighted_word = NoWord
    /\ ctrl_q_run = 0
    /\ filename = NoName
    /\ hl_opts = HighlightOptions_default
    /\ panicked = FALSE
    /\ \E query \in Queries, at \in RowIndices, direction \in Directions :
           last = RowCall("find_call", at, "", query, direction, None, row)

\* row.find(query, at, direction)
RowFind ==
    /\ last.op = "find_call"
    /\ last' = [last EXCEPT !.op = "find",
                            !.res = Row_find(row, last.query, last.at, last.direction)]
    /\ UNCHANGED <<row, tail>>
    /\ RowFrame

SpecFind == InitFind /\ [][RowFind]_vars

\* ========================================================== SpecHighlight
\* Row::highlight as a function of its inputs: the row, the options, the
\* match word and the carry-in are drawn by Init and one step makes the call.
\* The line "abc" 123 // tail
StringNumberComment ==
    <<"\"", "a", "b", "c", "\"", " ", "1", "2", "3", " ", "/", "/", " ", "t", "a", "i", "l">>

\* Lines that are longer than MaxHlLen or use further chars.
SampleLines ==
    {StringNumberComment,
     <<" ", "f", "n", " ">>,
     <<" ", "f", "n", "x", " ">>,
     <<"/", "*", "*", "/", "f", "n">>,
     <<"'", "a", "'", " ", "c", "a", "t", " ", "1", "2", " ", "c", "a", "t">>,
     <<"f", "n", " ", "c", "a", "t", " ", "/", "*", " ", "c">>,
     <<"/", "*", "*", "/">>,
     <<"/", "*", " ", "a", " ", "*", "/">>,
     <<"/", "*", " ", "a", " ", "*", "/", ";">>,
     <<" ", "/", "*", "*", "/", " ", "f">>,
     <<"\"">>,
     <<"\"", "a">>,
     <<"'", "a">>,
     <<"\"", " ", "f", "n", " ", "1">>,
     <<"'", " ", "f", "n", " ", "1">>,
     <<"a", "\"", "b", "'", "c">>,
     <<"'", "\"", "'">>,
     <<"\"", "'", "\"", "b">>}

HlLines == StringsUpTo({"/", "*", " ", "f", "1"}, MaxHlLen) \cup SampleLines

\* Options: every combination of the five flags, with and without keyword
\* lists, and the entries of the table of HighlightOptions::from.
HlOptions ==
    {HighlightOptions(NoType, n, st, ch, co, ml, kw[1], kw[2]) :
        n \in BOOLEAN, st \in BOOLEAN, ch \in BOOLEAN, co \in BOOLEAN,
        ml \in BOOLEAN,
        kw \in {<<<<>>, <<>>>>, <<<<<<"f">>, <<"f", "n">>>>, <<<<"f", "f">>>>>>}}
    \cup {HighlightOptions_from(f) : f \in Filenames}

HighlightCall(op, hl, word, start_with_comment, ret) ==
    [op |-> op, hl |-> hl, word |-> word, start_with_comment |-> start_with_comment,
     ret |-> ret]

InitHighlight ==
    /\ row \in {Row_from(l) : l \in HlLines}
    /\ \E hl \in HlOptions, start_with_comment \in BOOLEAN,
          word \in {NoWord, Some(<<"f">>), Some(<<"c", "a", "t">>)} :
           last = HighlightCall("highlight_call", hl, word, start_with_comment, FALSE)
    /\ tail = Row_default
    /\ rows = <<>>
    /\ dirty = FALSE
    /\ cursor = Position(0, 0)
    /\ offset = Position(0, 0)
    /\ quit_times = 0
    /\ should_quit = FALSE
    /\ highlighted_word = NoWord
    /\ ctrl_q_run = 0
    /\ filename = NoName
    /\ hl_opts = HighlightOptions_default
    /\ panicked = FALSE

\* row.highlight(&hl, &word, start_with_comment)
RowHighlight ==
    /\ last.op = "highlight_call"
    /\ \E h \in {Row_highlight(row, last.hl, last.word, last.start_with_comment)} :
           /\ row' = h.row
           /\ last' = [last EXCEPT !.op = "highlight", !.ret = h.ret]
    /\ UNCHANGED <<tail, rows, dirty, cursor, offset, quit_times, should_quit,
                   filename, hl_opts, highlighted_word, ctrl_q_run, panicked>>

SpecHighlight == InitHighlight /\ [][RowHighlight]_vars

\* =================================================================== File
\* Option<Position>
NoPosition == [some |-> FALSE, val |-> Position(0, 0)]

\* usize::saturating_sub
SaturatingSub(a, b) == IF a > b THEN a - b ELSE 0

\* Vec::insert(index, element), index 0-based and <= len.
VecInsert(v, index, e) == SubSeq(v, 1, index) \o <<e>> \o SubSeq(v, index + 1, Len(v))

\* Vec::remove(index), index 0-based and < len.
VecRemove(v, index) == SubSeq(v, 1, index) \o SubSeq(v, index + 2, Len(v))

\* " ".repeat(n)
Spaces(n) == [k \in 1..n |-> " "]

\* File::open: one Row per line of the file.
File_open(lines) == [k \in 1..Len(lines) |-> Row_from(lines[k])]

\* File::unhighlight_rows
File_unhighlight_rows(rs, start) ==
    [k \in 1..Len(rs) |->
        IF k - 1 >= SaturatingSub(start, 1)
        THEN [rs[k] EXCEPT !.is_highlighted = FALSE]
        ELSE rs[k]]

\* File::insert_newline
File_insert_newline(rs, at) ==
    IF at.y > Len(rs)
    THEN rs
    ELSE LET pushed == IF at.y = Len(rs) THEN Append(rs, Row_default) ELSE rs
             current_row == pushed[at.y + 1]
             num_spaces == Row_get_prefix_len(current_row, <<" ">>)
             halves == Row_split(current_row, at.x)
             new_row == Row_prepend_str(halves.new, Spaces(num_spaces))
         IN  VecInsert([pushed EXCEPT ![at.y + 1] = halves.row], at.y + 1, new_row)

\* File::insert with the dirty flag set ahead of the range check.
File_insert_dirty_first(rs, d, at, c) ==
    IF at.y > Len(rs)
    THEN [rows |-> rs, dirty |-> TRUE]
    ELSE LET edited ==
                 IF c = NL THEN File_insert_newline(rs, at)
                 ELSE IF at.y = Len(rs)
                      THEN Append(rs, Row_insert(Row_default, 0, c))
                      ELSE [rs EXCEPT ![at.y + 1] = Row_insert(rs[at.y + 1], at.x, c)]
         IN  [rows |-> File_unhighlight_rows(edited, at.y), dirty |-> TRUE]

\* File::insert: the rows and the dirty flag after the call.
File_insert(rs, d, at, c) ==
    IF at.y > Len(rs)
    THEN [rows |-> rs, dirty |-> d]
    ELSE LET edited ==
                 IF c = NL THEN File_insert_newline(rs, at)
                 ELSE IF at.y = Len(rs)
                      THEN Append(rs, Row_insert(Row_default, 0, c))
                      ELSE [rs EXCEPT ![at.y + 1] = Row_insert(rs[at.y + 1], at.x, c)]
         IN  [rows |-> File_unhighlight_rows(edited, at.y), dirty |-> TRUE]

\* File::delete with the merge removing the next row and appending nothing.
File_delete_drop_next(rs, d, at) ==
    IF at.y > Len(rs)
    THEN [rows |-> rs, dirty |-> d, panicked |-> FALSE]
    ELSE IF at.y >= Len(rs)
    THEN [rows |-> rs, dirty |-> TRUE, panicked |-> TRUE]
    ELSE IF at.x = rs[at.y + 1].len /\ at.y + 1 < Len(rs)
    THEN [rows |-> VecRemove(rs, at.y + 1), dirty |-> TRUE, panicked |-> FALSE]
    ELSE [rows |-> [rs EXCEPT ![at.y + 1] = Row_delete(rs[at.y + 1], at.x)],
          dirty |-> TRUE, panicked |-> FALSE]

\* File::delete: the rows and the dirty flag after the call, and whether
\* the call panicked on self.rows[at.y] (index out of bounds).
File_delete(rs, d, at) ==
    IF at.y > Len(rs)
    THEN [rows |-> rs, dirty |-> d, panicked |-> FALSE]
    ELSE IF at.y >= Len(rs)
    THEN [rows |-> rs, dirty |-> TRUE, panicked |-> TRUE]
    ELSE IF at.x = rs[at.y + 1].len /\ at.y + 1 < Len(rs)
    THEN LET next_row == rs[at.y + 2]
             removed == VecRemove(rs, at.y + 1)
         IN  [rows |-> [removed EXCEPT ![at.y + 1] = Row_append(removed[at.y + 1], next_row)],
              dirty |-> TRUE, panicked |-> FALSE]
    ELSE [rows |-> [rs EXCEPT ![at.y + 1] = Row_delete(rs[at.y + 1], at.x)],
          dirty |-> TRUE, panicked |-> FALSE]

\* The loop of File::find: n iterations are left, position is the loop's
\* mutable Position.
RECURSIVE File_find_loop(_, _, _, _, _)
File_find_loop(rs, query, position, direction, n) ==
    IF n = 0 \/ position.y >= Len(rs)
    THEN NoPosition
    ELSE LET index == Row_find(rs[position.y + 1], query, position.x, direction)
             next == IF direction = "Forward"
                     THEN Position(0, position.y + 1)
                     ELSE Position(rs[SaturatingSub(position.y, 1) + 1].len,
                                   SaturatingSub(position.y, 1))
         IN  IF index.some
             THEN [some |-> TRUE, val |-> Position(index.val, position.y)]
             ELSE File_find_loop(rs, query, next, direction, n - 1)

\* File::find
File_find(rs, query, at, direction) ==
    IF at.y >= Len(rs)
    THEN NoPosition
    ELSE LET start == IF direction = "Forward" THEN at.y ELSE 0
             end == IF direction = "Forward" THEN Len(rs) ELSE at.y + 1
         IN  File_find_loop(rs, query, Position(at.x, at.y), direction, end - start)

\* The loop of File::highlight over the rows i..until (1-based).
RECURSIVE File_highlight_loop(_, _, _, _, _, _)
RECURSIVE File_highlight_row(_, _, _, _, _, _)
File_highlight_loop(rs, hl, word, i, until, start_with_comment) ==
    IF i > until
    THEN rs
    ELSE File_highlight_row(rs, hl, word, i, until,
                            Row_highlight(rs[i], hl, word, start_with_comment))

File_highlight_row(rs, hl, word, i, until, h) ==
    File_highlight_loop([rs EXCEPT ![i] = h.row], hl, word, i + 1, until, h.ret)

\* File::highlight running over every row, whatever its limit.
File_highlight_all(rs, until) == Len(rs)

\* The until of File::highlight: the number of rows it runs over.
File_highlight_until(rs, until) ==
    IF until.some
    THEN IF until.val + 1 < Len(rs) THEN until.val + 1 ELSE Len(rs)
    ELSE Len(rs)

\* File::highlight: the rows after the call; until is an Option<usize>.
File_highlight(rs, hl, word, until) ==
    File_highlight_loop(rs, hl, word, 1, File_highlight_until(rs, until), FALSE)

RECURSIVE SumLen(_)
SumLen(rs) == IF rs = <<>> THEN 0 ELSE Head(rs).len + SumLen(Tail(rs))

\* File::save with `self.dirty = false` left out.
File_save_keeps_dirty(rs, name, hl, d, io) ==
    IF name = NoName
    THEN [ok |-> TRUE, nbytes |-> 0, hl_opts |-> hl, dirty |-> d]
    ELSE IF io = "create_failed"
    THEN [ok |-> FALSE, nbytes |-> 0, hl_opts |-> hl, dirty |-> d]
    ELSE [ok |-> ~(io = "write_failed" /\ rs # <<>>),
          nbytes |-> IF io = "write_failed" THEN 0 ELSE SumLen(rs),
          hl_opts |-> [hl EXCEPT !.file_type = HighlightOptions_set_filetype(name)],
          dirty |-> d]

\* File::save: whether it returned Ok, and the hl_opts and the dirty flag
\* after the call.  Nothing is written for an empty buffer, so there no
\* write fails.
File_save(rs, name, hl, d, io) ==
    IF name = NoName
    THEN [ok |-> TRUE, nbytes |-> 0, hl_opts |-> hl, dirty |-> d]
    ELSE IF io = "create_failed"
    THEN [ok |-> FALSE, nbytes |-> 0, hl_opts |-> hl, dirty |-> d]
    ELSE IF io = "write_failed" /\ rs # <<>>
    THEN [ok |-> FALSE, nbytes |-> 0,
          hl_opts |-> [hl EXCEPT !.file_type = HighlightOptions_set_filetype(name)],
          dirty |-> d]
    ELSE [ok |-> TRUE, nbytes |-> SumLen(rs),
          hl_opts |-> [hl EXCEPT !.file_type = HighlightOptions_set_filetype(name)],
          dirty |-> FALSE]

\* Editor::save once the buffer has the name name and self.file.save() has
\* returned f.
Editor_saved(name, f) ==
    [saved |-> f.ok, filename |-> name, hl_opts |-> f.hl_opts, dirty |-> f.dirty]

\* Editor::save from self.file.save() on, the buffer having the name name.
Editor_save_as(rs, name, hl, d, io) ==
    Editor_saved(name, File_save(rs, name, hl, d, io))

\* Editor::save: new_name is what the "Save as: " prompt returns when the
\* buffer has no name (NoName: the prompt was aborted).  saved tells whether
\* File::save ran and returned Ok.
Editor_save(rs, name, hl, d, new_name, io) ==
    IF name = NoName /\ new_name = NoName
    THEN [saved |-> FALSE, filename |-> name, hl_opts |-> hl, dirty |-> d]
    ELSE Editor_save_as(rs, IF name = NoName THEN new_name ELSE name, hl, d, io)

\* =============================================================== SpecFile
\* A File driven through insert and delete at arbitrary Positions, one call
\* at a time: last holds the call in progress from its entry to its return.
EditChars == {"a", " ", "M"}

RECURSIVE TotalChars(_)
TotalChars(rs) == IF rs = <<>> THEN 0 ELSE Len(Head(rs).string) + TotalChars(Tail(rs))

WithinFileBounds(rs) == Len(rs) <= MaxFileRows /\ TotalChars(rs) <= MaxFileChars

FilePositions == {Position(px, py) : px \in 0..(MaxFileChars + 1), py \in 0..(MaxFileRows + 1)}

\* branch names the path the call took through the code.
FileCall(op, at, c, branch) == [op |-> op, at |-> at, c |-> c, branch |-> branch]

NoFileCall == FileCall("none", Position(0, 0), "", "")

InitFile ==
    /\ rows \in {rs \in {File_open(ls) : ls \in UNION {[1..k -> StringsUpTo(EditChars, MaxOpenLen)] :
                                                       k \in 0..MaxFileRows}} :
                    WithinFileBounds(rs)}
    /\ dirty = FALSE
    /\ panicked = FALSE
    /\ last = NoFileCall
    /\ row = Row_default
    /\ tail = Row_default
    /\ cursor = Position(0, 0)
    /\ offset = Position(0, 0)
    /\ quit_times = 0
    /\ should_quit = FALSE
    /\ highlighted_word = NoWord
    /\ ctrl_q_run = 0
    /\ filename = "x.txt"
    /\ hl_opts = HighlightOptions_from("x.txt")

FileFrame ==
    UNCHANGED <<row, tail, cursor, offset, quit_times, should_quit, filename,
                hl_opts, highlighted_word, ctrl_q_run>>

\* file.insert(&at, c)
FileInsert ==
    \E at \in FilePositions, c \in EditChars \cup {NL} :
        LET f == File_insert(rows, dirty, at, c)
            branch == IF at.y > Len(rows) THEN "out_of_range"
                      ELSE IF c = NL THEN "newline"
                      ELSE IF at.y = Len(rows) THEN "push" ELSE "row_insert"
        IN  /\ last = NoFileCall
            /\ WithinFileBounds(f.rows)
            /\ rows' = f.rows
            /\ dirty' = f.dirty
            /\ last' = FileCall("insert", at, c, branch)
            /\ UNCHANGED panicked
            /\ FileFrame

\* file.delete(&at)
FileDelete ==
    \E at \in FilePositions :
        LET f == File_delete(rows, dirty, at)
            branch == IF at.y > Len(rows) THEN "out_of_range"
                      ELSE IF f.panicked THEN "panic"
                      ELSE IF Len(f.rows) < Len(rows) THEN "merge" ELSE "row_delete"
        IN  /\ last = NoFileCall
            /\ rows' = f.rows
            /\ dirty' = f.dirty
            /\ panicked' = f.panicked
            /\ last' = FileCall("delete", at, "", branch)
            /\ FileFrame

\* The call returns and the caller is free to make the next one; a call
\* that panicked never returns.
FileReturn ==
    /\ last # NoFileCall
    /\ ~panicked
    /\ last' = NoFileCall
    /\ UNCHANGED <<rows, dirty, panicked>>
    /\ FileFrame

NextFile ==
    \/ FileInsert
    \/ FileDelete
    \/ FileReturn

SpecFile == InitFile /\ [][NextFile]_vars

\* ====================================================== SpecFileHighlight
\* File::highlight called again and again on a file as File::open built it,
\* with arbitrary match words and limits.
HlFileLines ==
    {<<>>, <<"f">>, <<"/", "*">>, <<"f", "f", "/", "*">>, <<"*", "/">>,
     <<"*", "/", "f">>, <<"/", "*", "*", "/">>}

HlFileWords == {NoWord, [some |-> TRUE, val |-> <<"f">>]}

HlFileCall(op, word, until) == [op |-> op, word |-> word, until |-> until]

NoHlFileCall == HlFileCall("none", NoWord, None)

InitFileHighlight ==
    /\ rows \in {File_open(ls) : ls \in UNION {[1..k -> HlFileLines] : k \in 0..MaxHlRows}}
    /\ filename \in Filenames
    /\ hl_opts = HighlightOptions_from(filename)
    /\ dirty = FALSE
    /\ panicked = FALSE
    /\ last = NoHlFileCall
    /\ row = Row_default
    /\ tail = Row_default
    /\ cursor = Position(0, 0)
    /\ offset = Position(0, 0)
    /\ quit_times = 0
    /\ should_quit = FALSE
    /\ highlighted_word = NoWord
    /\ ctrl_q_run = 0

\* file.highlight(&word, until)
FileHighlight ==
    \E word \in HlFileWords, until \in {None} \cup {Some(n) : n \in 0..MaxHlRows} :
        /\ last = NoHlFileCall
        /\ rows' = File_highlight(rows, hl_opts, word, until)
        /\ last' = HlFileCall("highlight", word, until)
        /\ UNCHANGED <<dirty, panicked>>
        /\ FileFrame

\* The call returns.
FileHighlightReturn ==
    /\ last # NoHlFileCall
    /\ last' = NoHlFileCall
    /\ UNCHANGED rows
    /\ UNCHANGED <<dirty, panicked>>
    /\ FileFrame

NextFileHighlight ==
    \/ FileHighlight
    \/ FileHighlightReturn

SpecFileHighlight == InitFileHighlight /\ [][NextFileHighlight]_vars

\* ============================================================= SpecBuffer
\* A File from File::default or File::open, driven through insert, delete,
\* find, highlight and the save of Editor::save.  last holds the name of the
\* call in progress, whether its row index was in range, whether it
\* succeeded, and the dirty flag and the filename it found.
BufChars == {"a"}

BufFilenames == {"x.rs", "x"}

BufCall(op, in_range, ok, d, name) ==
    [op |-> op, in_range |-> in_range, ok |-> ok, dirty |-> d, name |-> name]

NoBufCall == BufCall("none", FALSE, FALSE, FALSE, NoName)

InitBuffer ==
    /\ \/ /\ filename = NoName
          /\ rows = <<>>
          /\ hl_opts = HighlightOptions_default
       \/ /\ filename \in BufFilenames
          /\ rows \in {File_open(ls) :
                         ls \in UNION {[1..k -> StringsUpTo(BufChars, MaxOpenLen)] :
                                          k \in 0..MaxBufRows}}
          /\ TotalChars(rows) <= MaxBufChars
          /\ hl_opts = HighlightOptions_from(filename)
    /\ dirty = FALSE
    /\ panicked = FALSE
    /\ last = NoBufCall
    /\ row = Row_default
    /\ tail = Row_default
    /\ cursor = Position(0, 0)
    /\ offset = Position(0, 0)
    /\ quit_times = 0
    /\ should_quit = FALSE
    /\ highlighted_word = NoWord
    /\ ctrl_q_run = 0

\* file.insert(&at, c)
BufInsert ==
    \E at \in FilePositions, c \in BufChars \cup {NL} :
        \E f \in {File_insert(rows, dirty, at, c)} :
            /\ last = NoBufCall
            /\ Len(f.rows) <= MaxBufRows /\ TotalChars(f.rows) <= MaxBufChars
            /\ rows' = f.rows
            /\ dirty' = f.dirty
            /\ last' = BufCall("insert", at.y <= Len(rows), TRUE, dirty, filename)
            /\ UNCHANGED panicked
            /\ FileFrame

\* file.delete(&at)
BufDelete ==
    \E at \in FilePositions :
        \E f \in {File_delete(rows, dirty, at)} :
            /\ last = NoBufCall
            /\ rows' = f.rows
            /\ dirty' = f.dirty
            /\ panicked' = f.panicked
            /\ last' = BufCall("delete", at.y < Len(rows), ~f.panicked, dirty, filename)
            /\ FileFrame

\* file.find(&query, &at, direction)
BufFind ==
    \E at \in FilePositions, direction \in Directions :
        /\ last = NoBufCall
        /\ last' = BufCall("find", at.y < Len(rows),
                           File_find(rows, <<"a">>, at, direction).some, dirty, filename)
        /\ UNCHANGED <<rows, dirty, panicked>>
        /\ FileFrame

\* file.highlight(&word, until)
BufHighlight ==
    \E word \in HlFileWords, until \in {None, Some(0)} :
        /\ last = NoBufCall
        /\ rows' = File_highlight(rows, hl_opts, word, until)
        /\ last' = BufCall("highlight", TRUE, TRUE, dirty, filename)
        /\ UNCHANGED <<dirty, panicked>>
        /\ FileFrame

\* Editor::save
BufSave ==
    \E new_name \in BufFilenames \cup {NoName}, io \in {"ok", "create_failed", "write_failed"} :
        \E e \in {Editor_save(rows, filename, hl_opts, dirty, new_name, io)} :
            /\ last = NoBufCall
            /\ filename' = e.filename
            /\ hl_opts' = e.hl_opts
            /\ dirty' = e.dirty
            /\ last' = BufCall("save", TRUE, e.saved, dirty, filename)
            /\ UNCHANGED <<rows, panicked, row, tail, cursor, offset, quit_times,
                            should_quit, highlighted_word, ctrl_q_run>>

\* The call returns; a call that panicked never returns.
BufReturn ==
    /\ last # NoBufCall
    /\ ~panicked
    /\ last' = NoBufCall
    /\ UNCHANGED <<rows, dirty, panicked>>
    /\ FileFrame

NextBuffer ==
    \/ BufInsert
    \/ BufDelete
    \/ BufFind
    \/ BufHighlight
    \/ BufSave
    \/ BufReturn

SpecBuffer == InitBuffer /\ [][NextBuffer]_vars

\* ============================================================= SpecSearch
\* File::find as a function of its inputs: the buffer (as File::open builds
\* it), the query, the start Position and the direction are drawn by the
\* initial state; the one action is the call.
\* The files of exactly k lines with at most n chars in all.
RECURSIVE Lines(_, _)
Lines(k, n) ==
    IF k = 0 THEN {<<>>}
    ELSE UNION {{<<s>> \o ls : ls \in Lines(k - 1, n - Len(s))} :
                    s \in StringsUpTo({"a", "M", "P"}, n)}

SearchContents == UNION {Lines(k, MaxSearchChars) : k \in 0..MaxSearchRows}

SearchCall(op, query, at, direction, res) ==
    [op |-> op, query |-> query, at |-> at, direction |-> direction, res |-> res]

InitSearch ==
    /\ rows \in {File_open(ls) : ls \in SearchContents}
    /\ dirty = FALSE
    /\ panicked = FALSE
    /\ \E query \in Queries, direction \in Directions,
          at \in {Position(px, py) : px \in 0..(MaxSearchChars + 1), py \in 0..MaxSearchRows} :
           last = SearchCall("find_call", query, at, direction, NoPosition)
    /\ row = Row_default
    /\ tail = Row_default
    /\ cursor = Position(0, 0)
    /\ offset = Position(0, 0)
    /\ quit_times = 0
    /\ should_quit = FALSE
    /\ highlighted_word = NoWord
    /\ ctrl_q_run = 0
    /\ filename = "x.txt"
    /\ hl_opts = HighlightOptions_from("x.txt")

\* file.find(query, &at, direction)
FileFind ==
    /\ last.op = "find_call"
    /\ last' = [last EXCEPT !.op = "find",
                            !.res = File_find(rows, last.query, last.at, last.direction)]
    /\ UNCHANGED <<rows, dirty, panicked>>
    /\ FileFrame

SpecSearch == InitSearch /\ [][FileFind]_vars

\* ================================================================= Editor
\* Keys: termion's Key::Char(c), Key::Ctrl(c) and the named keys.
Key(k, c) == [k |-> k, c |-> c]

NamedKeys ==
    {"Backspace", "Delete", "PageUp", "PageDown", "End", "Home",
     "Left", "Right", "Up", "Down"}

\* const HECTOR_QUIT_TIMES
HECTOR_QUIT_TIMES == 3

\* Editor::move_cursor: the cursor after the move.
Editor_move_cursor(rs, cur, k) ==
    LET x == cur.x
        y == cur.y
        height == Len(rs)
        terminal_height == TermHeight
        rowlen(i) == IF i < Len(rs) THEN rs[i + 1].len ELSE 0
        width == rowlen(y)
        clampx(i) == IF i < Len(rs) /\ x > rs[i + 1].len THEN rs[i + 1].len ELSE x
    IN  CASE k = "Left" ->
                 IF x > 0 THEN Position(x - 1, y)
                 ELSE IF y > 0 THEN Position(rowlen(y - 1), y - 1)
                 ELSE Position(x, y)
          [] k = "Right" ->
                 IF x < width THEN Position(x + 1, y)
                 ELSE IF y < height THEN Position(0, y + 1)
                 ELSE Position(x, y)
          [] k = "Up" -> Position(clampx(SaturatingSub(y, 1)), SaturatingSub(y, 1))
          [] k = "Down" ->
                 IF y < height THEN Position(clampx(y + 1), y + 1) ELSE Position(x, y)
          [] k = "Home" -> Position(0, y)
          [] k = "End" -> Position(width, y)
          [] k = "PageDown" ->
                 Position(x, IF y + terminal_height < height
                             THEN y + terminal_height ELSE height)
          [] k = "PageUp" ->
                 Position(x, IF y > terminal_height THEN y - terminal_height ELSE 0)
          [] OTHER -> Position(x, y)

\* Moving the cursor Right n times.
RECURSIVE MoveRightTimes(_, _, _)
MoveRightTimes(rs, cur, n) ==
    IF n = 0 THEN cur ELSE MoveRightTimes(rs, Editor_move_cursor(rs, cur, "Right"), n - 1)

\* A scroll that lets the cursor sit one line below and one column right of
\* the window before it follows.
Editor_scroll_late(cur, off) ==
    LET height == TermHeight
        width == TermWidth
        y1 == IF cur.y < off.y THEN cur.y ELSE off.y
        y2 == IF cur.y > y1 + height THEN cur.y - height + 1 ELSE y1
        x1 == IF cur.x < off.x THEN cur.x ELSE off.x
        x2 == IF cur.x > x1 + width THEN cur.x - width + 1 ELSE x1
    IN  Position(x2, y2)

\* Editor::scroll: the offset after the call.
Editor_scroll(cur, off) ==
    LET height == TermHeight
        width == TermWidth
        y1 == IF cur.y < off.y THEN cur.y ELSE off.y
        y2 == IF cur.y >= y1 + height THEN cur.y - height + 1 ELSE y1
        x1 == IF cur.x < off.x THEN cur.x ELSE off.x
        x2 == IF cur.x >= x1 + width THEN cur.x - width + 1 ELSE x1
    IN  Position(x2, y2)

\* Editor::refresh_screen: the rows after the highlight pass of the render.
Editor_refresh_screen(rs, hl, word, off, sq) ==
    IF sq THEN rs ELSE File_highlight(rs, hl, word, Some(off.y + TermHeight))

\* The Editor's fields the key handling reads and writes.
EditorState(rs, d, cur, off, qt, sq, p) ==
    [rows |-> rs, dirty |-> d, cursor |-> cur, offset |-> off,
     quit_times |-> qt, should_quit |-> sq, panicked |-> p]

\* The editor e with the File fields of f (the result of a File call) and
\* the cursor at cur.
WithFile(e, f, cur) ==
    [e EXCEPT !.rows = f.rows, !.dirty = f.dirty, !.cursor = cur]

\* Key::Char(c), once self.file.insert(&self.cursor, c) has given the File
\* f and self.move_cursor(Key::Right) the cursor moved.
Editor_char_inserted(e, c, f, moved) ==
    IF c # NL
    THEN WithFile(e, f, moved)
    ELSE IF moved.y >= Len(f.rows)
    \* self.file.row(self.cursor.y).unwrap() on None
    THEN [WithFile(e, f, moved) EXCEPT !.panicked = TRUE]
    ELSE WithFile(e, f, MoveRightTimes(f.rows, moved,
                            Row_get_prefix_len(f.rows[moved.y + 1], <<" ">>)))

\* Key::Char(c), once self.file.insert(&self.cursor, c) has given the File f.
Editor_char(e, c, f) ==
    Editor_char_inserted(e, c, f, Editor_move_cursor(f.rows, e.cursor, "Right"))

\* self.file.delete(&cur) with the cursor at cur.
Editor_delete_at(e, cur, f) ==
    [WithFile(e, f, cur) EXCEPT !.panicked = f.panicked]

\* Key::Backspace past its guard, once self.move_cursor(Key::Left) has given
\* the cursor moved.
Editor_backspace(e, moved) ==
    Editor_delete_at(e, moved, File_delete(e.rows, e.dirty, moved))

\* A Backspace that takes no notice of where the cursor is.
Backspace_unguarded(cur) == TRUE

\* The guard of the Key::Backspace arm.
Backspace_guard(cur) == cur.x > 0 \/ cur.y > 0

\* The match of Editor::process_keypress: the state when the arm of key is
\* through.
Editor_keypress_arm(e, key) ==
    CASE key.k = "Char" ->
             Editor_char(e, key.c, File_insert(e.rows, e.dirty, e.cursor, key.c))
      [] key.k = "Backspace" ->
             IF Backspace_guard(e.cursor)
             THEN Editor_backspace(e, Editor_move_cursor(e.rows, e.cursor, "Left"))
             ELSE e
      [] key.k = "Delete" ->
             Editor_delete_at(e, e.cursor, File_delete(e.rows, e.dirty, e.cursor))
      [] key.k = "Ctrl" /\ key.c = "q" -> [e EXCEPT !.should_quit = TRUE]
      [] key.k \in NamedKeys \ {"Backspace", "Delete"} ->
             [e EXCEPT !.cursor = Editor_move_cursor(e.rows, e.cursor, key.k)]
      [] OTHER -> e

\* An end of Editor::process_keypress that scrolls and leaves quit_times as
\* it is.
Editor_keypress_end_no_reset(a) ==
    IF a.panicked THEN a
    ELSE [a EXCEPT !.offset = Editor_scroll(a.cursor, a.offset)]

\* The end of Editor::process_keypress: self.scroll() and the reset of
\* quit_times.
Editor_keypress_end(a) ==
    IF a.panicked THEN a
    ELSE [a EXCEPT !.offset = Editor_scroll(a.cursor, a.offset),
                   !.quit_times = HECTOR_QUIT_TIMES]

\* Editor::process_keypress
Editor_process_keypress(e, key) ==
    IF key.k = "Ctrl" /\ key.c = "q" /\ e.dirty /\ e.quit_times > 0
    THEN [e EXCEPT !.quit_times = e.quit_times - 1]
    ELSE Editor_keypress_end(Editor_keypress_arm(e, key))

\* Editor::prompt, the match on the key read: the String msg after it.
\* String::truncate(new_len) panics when new_len is inside a char, as
\* msg.len() - 1 is when the last char of msg has more than one byte.
Editor_prompt_msg(msg, key) ==
    CASE key.k = "Backspace" ->
             IF msg = <<>> THEN [panicked |-> FALSE, msg |-> msg]
             ELSE [panicked |-> ByteLen(msg[Len(msg)]) > 1,
                   msg |-> SubSeq(msg, 1, Len(msg) - 1)]
      [] key.k = "Char" /\ key.c # NL -> [panicked |-> FALSE, msg |-> Append(msg, key.c)]
      [] key.k = "Esc" -> [panicked |-> FALSE, msg |-> <<>>]
      [] OTHER -> [panicked |-> FALSE, msg |-> msg]

\* The closure Editor::search hands to Editor::prompt, run on the key read
\* and the query typed so far: the cursor and the offset it leaves.
Editor_search_callback(rs, cur, off, key, query) ==
    LET moved == key.k \in {"Right", "Down"}
        direction == IF key.k \in {"Left", "Up"} THEN "Backward" ELSE "Forward"
        from == IF moved THEN Editor_move_cursor(rs, cur, "Right") ELSE cur
        found == File_find(rs, query, from, direction)
    IN  IF found.some
        THEN [cursor |-> found.val, offset |-> Editor_scroll(found.val, off)]
        ELSE [cursor |-> IF moved THEN Editor_move_cursor(rs, from, "Left") ELSE from,
              offset |-> off]

\* An Editor::search that leaves the cursor and the offset where the
\* session put them.
Editor_search_end_stays(e, saved_position, saved_offset, msg) == e

\* Editor::search once the prompt has returned msg (None when it is empty):
\* the cursor and the offset it leaves, from those saved when it began.
Editor_search_end(e, saved_position, saved_offset, msg) ==
    IF msg = <<>>
    THEN [e EXCEPT !.cursor = saved_position,
                   !.offset = Editor_scroll(saved_position, saved_offset)]
    ELSE e

\* ============================================================= SpecEditor
\* The loop of Editor::run on an empty or a loaded buffer: refresh_screen,
\* then process_keypress on the key read.  last is the key being handled
\* and the cursor it was read at, from the moment it is read until the loop
\* is back at refresh_screen; the loop is entered at refresh_screen, which
\* the key "run" of the initial state stands for.  Key::Ctrl('s') and
\* Key::Ctrl('f') are read under SpecPrompt: the first is the action Save on
\* the named buffer; the second opens the prompt of Editor::search, which
\* reads further keys, and while it does, last is the prompt, with the
\* cursor and the offset Editor::search saved and the msg typed so far.
Keys ==
    {Key(k, "") : k \in NamedKeys} \cup {Key("Char", c) : c \in EditChars \cup {NL}}
        \cup {Key("Ctrl", "q"), Key("Ctrl", "h")}

KeyEvent(key, at) == [k |-> key.k, c |-> key.c, at |-> at]

NoKey == KeyEvent(Key("none", ""), Position(0, 0))

WithinEditorBounds(rs) == Len(rs) <= MaxEdRows /\ TotalChars(rs) <= MaxEdChars

InitEditor ==
    /\ rows \in {rs \in {File_open(ls) : ls \in UNION {[1..k -> StringsUpTo(EditChars, MaxOpenLen)] :
                                                       k \in 0..MaxEdRows}} :
                    WithinEditorBounds(rs)}
    /\ dirty = FALSE
    /\ cursor = Position(0, 0)
    /\ offset = Position(0, 0)
    /\ quit_times = 0
    /\ should_quit = FALSE
    /\ highlighted_word = NoWord
    /\ ctrl_q_run = 0
    /\ filename = "x.txt"
    /\ hl_opts = HighlightOptions_from("x.txt")
    /\ panicked = FALSE
    /\ last = KeyEvent(Key("run", ""), Position(0, 0))
    /\ row = Row_default
    /\ tail = Row_default

\* self.process_keypress() on the key read
KeyPress ==
    \E key \in Keys :
        \E e \in {Editor_process_keypress(
                     EditorState(rows, dirty, cursor, offset, quit_times,
                                 should_quit, panicked), key)} :
            /\ last = NoKey
            /\ ~should_quit
            /\ WithinEditorBounds(e.rows)
            /\ rows' = e.rows
            /\ dirty' = e.dirty
            /\ cursor' = e.cursor
            /\ offset' = e.offset
            /\ quit_times' = e.quit_times
            /\ should_quit' = e.should_quit
            /\ panicked' = e.panicked
            /\ last' = KeyEvent(key, cursor)
            /\ ctrl_q_run' = IF key = Key("Ctrl", "q") THEN ctrl_q_run + 1 ELSE 0
            /\ UNCHANGED <<row, tail, filename, hl_opts, highlighted_word>>

\* Key::Ctrl('s'): Editor::save on a buffer that has a name, then the end
\* of process_keypress.
Save ==
    \E io \in {"ok", "create_failed", "write_failed"} :
        \E e \in {Editor_save(rows, filename, hl_opts, dirty, NoName, io)} :
            /\ last = NoKey
            /\ ~should_quit
            /\ dirty' = e.dirty
            /\ hl_opts' = e.hl_opts
            /\ filename' = e.filename
            /\ offset' = Editor_scroll(cursor, offset)
            /\ quit_times' = HECTOR_QUIT_TIMES
            /\ last' = KeyEvent(Key("Ctrl", "s"), cursor)
            /\ ctrl_q_run' = 0
            /\ UNCHANGED <<row, tail, rows, cursor, should_quit, highlighted_word, panicked>>

\* Key::Ctrl('f'): Editor::search saves the cursor and the offset and
\* enters Editor::prompt with an empty msg.
SearchStart ==
    /\ last = NoKey
    /\ ~should_quit
    /\ last' = [k |-> "Prompt", c |-> "f", at |-> cursor, off |-> offset, msg |-> <<>>]
    /\ ctrl_q_run' = 0
    /\ UNCHANGED <<row, tail, rows, dirty, cursor, offset, quit_times, should_quit,
                   filename, hl_opts, highlighted_word, panicked>>

\* One round of the loop of Editor::prompt that stays in the loop:
\* refresh_screen, the key read, the new msg, the closure of Editor::search.
PromptKey ==
    /\ last.k = "Prompt"
    /\ ~panicked
    /\ \E key \in {Key(k, "") : k \in {"Right", "Left", "Up", "Down", "Backspace"}}
                    \cup {Key("Char", c) : c \in {"a", "M"}} :
           \E m \in {Editor_prompt_msg(last.msg, key)} :
               \E cb \in {Editor_search_callback(rows, cursor, offset, key, m.msg)} :
                   /\ Len(m.msg) <= MaxQuery
                   /\ rows' = Editor_refresh_screen(rows, hl_opts, highlighted_word,
                                                    offset, should_quit)
                   /\ panicked' = m.panicked
                   /\ cursor' = IF m.panicked THEN cursor ELSE cb.cursor
                   /\ offset' = IF m.panicked THEN offset ELSE cb.offset
                   /\ highlighted_word' =
                          IF m.panicked THEN highlighted_word ELSE Some(m.msg)
                   /\ last' = [last EXCEPT !.msg = m.msg]
                   /\ UNCHANGED <<row, tail, dirty, quit_times, should_quit, filename,
                                  hl_opts, ctrl_q_run>>

\* The round of the loop of Editor::prompt that leaves it, on Enter or on
\* Esc; then the end of Editor::search and the end of process_keypress.
PromptEnd ==
    /\ last.k = "Prompt"
    /\ ~panicked
    /\ \E key \in {Key("Char", NL), Key("Esc", "")} :
           \E msg \in {IF key.k = "Esc" THEN <<>> ELSE last.msg} :
               \E e \in {Editor_keypress_end(Editor_search_end(
                            EditorState(rows, dirty, cursor, offset, quit_times,
                                        should_quit, panicked),
                            last.at, last.off, msg))} :
                   /\ rows' = Editor_refresh_screen(rows, hl_opts, highlighted_word,
                                                    offset, should_quit)
                   /\ cursor' = e.cursor
                   /\ offset' = e.offset
                   /\ quit_times' = e.quit_times
                   /\ highlighted_word' = NoWord
                   /\ last' = [last EXCEPT !.k = "Ctrl", !.msg = msg]
                   /\ UNCHANGED <<row, tail, dirty, should_quit, filename, hl_opts,
                                  ctrl_q_run, panicked>>

\* The loop is back at self.refresh_screen(), which runs the highlight pass
\* unless the editor is about to quit; a panic ends the process.
Refresh ==
    /\ last # NoKey
    /\ last.k # "Prompt"
    /\ ~panicked
    /\ last' = NoKey
    /\ rows' = Editor_refresh_screen(rows, hl_opts, highlighted_word, offset, should_quit)
    /\ UNCHANGED <<row, tail, dirty, cursor, offset, quit_times, should_quit,
                   filename, hl_opts, highlighted_word, ctrl_q_run, panicked>>

NextEditor ==
    \/ KeyPress
    \/ Refresh

SpecEditor == InitEditor /\ [][NextEditor]_vars

\* The same loop with Key::Ctrl('s') and Key::Ctrl('f') among the keys read.
NextPrompt ==
    \/ KeyPress
    \/ Save
    \/ SearchStart
    \/ PromptKey
    \/ PromptEnd
    \/ Refresh

SpecPrompt == InitEditor /\ [][NextPrompt]_vars

\* ================================================================= claims

\* C1: after every Row.insert, Row.delete, Row.split and Row.append call the
\* Row's cached length equals the number of grapheme clusters of its
\* content, and so does the cached length of the Row that split returned.
\* (SpecRow)
C1_LenIsGraphemeCount ==
    /\ row.len = GraphemeCount(row.string)
    /\ tail.len = GraphemeCount(tail.string)

\* C2: tail = r.split(at) followed by r.append(tail) leaves r with exactly
\* the content and the length it had before the split, for every at.
\* (SpecRow; last.pre is the row as it was when split was called)
C2_SplitAppendRestores ==
    [][(last.op = "split" /\ last'.op = "append_tail")
         => (row'.string = last.pre.string /\ row'.len = last.pre.len)]_vars

\* The content half of C2 alone (holds: the lost part is the cached length).
C2_SplitAppendRestoresContent ==
    [][(last.op = "split" /\ last'.op = "append_tail")
         => row'.string = last.pre.string]_vars

\* ---------------------------------------------------------- Row::find
\* "query occurs in the string s at column c and ends before column e", in
\* the two readings the words allow.  Columns are 0-based cluster indices.
\* Char-wise: the chars of the clusters c .. e-1 of s begin with the chars
\* of query.
CharwiseWithin(s, query, c, e) ==
    LET g == Graphemes(s)
        span == Concat(SubSeq(g, c + 1, Min(e, Len(g))))
    IN  /\ c < Len(g)
        /\ Len(query) <= Len(span)
        /\ SubSeq(span, 1, Len(query)) = query

\* Cluster-wise: query is exactly a run of whole clusters c .. c+m-1 of s,
\* with c+m <= e.
ClusterwiseWithin(s, query, c, e) ==
    LET g == Graphemes(s)
    IN  \E m \in 1..(Min(e, Len(g)) - c) : Concat(SubSeq(g, c + 1, c + m)) = query

\* The result C6 describes for a non-empty query and start <= length, under
\* the reading Within of "occurs".
FindExpected(Within(_, _, _, _), s, query, start, direction) ==
    LET n == GraphemeCount(s)
        cols == IF direction = "Forward"
                THEN {c \in start..(n - 1) : Within(s, query, c, n)}
                ELSE {c \in 0..(start - 1) : Within(s, query, c, start)}
    IN  IF cols = {} THEN None
        ELSE IF direction = "Forward"
             THEN Some(CHOOSE c \in cols : \A d \in cols : c <= d)
             ELSE Some(CHOOSE c \in cols : \A d \in cols : c >= d)

\* C6: Row.find with a non-empty query and start <= length returns the
\* smallest column >= start at which query occurs (Forward), the largest
\* column at which query occurs entirely within [0, start) (Backward), and
\* none exactly when there is no such column; with an empty query or
\* start > length it returns none.  The result has to be the one the claim
\* describes under at least one of the two readings of "occurs".  (SpecFind)
C6_RowFindFirstOrLast ==
    last.op = "find" =>
        IF last.query = <<>> \/ last.at > row.len
        THEN last.res = None
        ELSE \/ last.res = FindExpected(CharwiseWithin, row.string, last.query,
                                        last.at, last.direction)
             \/ last.res = FindExpected(ClusterwiseWithin, row.string, last.query,
                                        last.at, last.direction)

\* C6 on rows in which every char is a cluster of its own (no Extend and no
\* Prepend char): there Row.find returns what the claim describes.
C6_RowFindPlainText ==
    (last.op = "find" /\ \A k \in 1..Len(row.string) : row.string[k] \in {"a", " "})
        => last.res = (IF last.query = <<>> \/ last.at > row.len
                       THEN None
                       ELSE FindExpected(CharwiseWithin, row.string, last.query,
                                         last.at, last.direction))

\* --------------------------------------------------------------- File
\* What C4 says of a delete at column x of row k (0-based) that finds x at
\* the end of row k and a row k+1 after it.
C4_Merged(k, x) ==
    (k + 1 < Len(rows) /\ x = rows[k + 1].len) =>
        /\ Len(rows') = Len(rows) - 1
        /\ rows'[k + 1].string = rows[k + 1].string \o rows[k + 2].string
        /\ rows'[k + 1].len = rows[k + 1].len + rows[k + 2].len
        /\ \A i \in 1..k : rows'[i] = rows[i]
        /\ \A j \in (k + 3)..Len(rows) : rows'[j - 1] = rows[j]

\* C3: Buffer.delete never fails, and with position.y >= row_count it
\* returns normally and leaves the row sequence unchanged.  (SpecFile)
C3_DeleteNeverFails ==
    [][last'.op = "delete"
         => (~panicked' /\ (last'.at.y >= Len(rows) => rows' = rows))]_vars

\* C4: Buffer.delete at (x, k) with x the length of row k and a row k+1:
\* row k becomes its old content followed by that of row k+1, its length the
\* sum of both lengths, the row count drops by one, rows before k are
\* unchanged and the rows after k+1 move up by one.  (SpecFile)
C4_DeleteMergesRows ==
    [][last'.op = "delete" => C4_Merged(last'.at.y, last'.at.x)]_vars

\* C4's case: a merge at row 0 of two non-empty rows, with a third row
\* behind them that moved up.
C4_Witness ==
    /\ last.op = "delete"
    /\ last.branch = "merge"
    /\ last.at.y = 0
    /\ last.at.x > 0
    /\ Len(rows) >= 2
    /\ rows[1].len > last.at.x

\* C10: Buffer.insert with position.y > row_count changes neither the rows
\* nor the dirty flag, whatever the char.  (SpecFile)
C10_InsertOutOfRangeNoOp ==
    [][(last'.op = "insert" /\ last'.at.y > Len(rows))
         => (rows' = rows /\ dirty' = dirty)]_vars

\* C10's case: a newline inserted two rows past the end of a clean,
\* non-empty buffer.
C10_Witness ==
    /\ last.op = "insert"
    /\ last.c = NL
    /\ last.at.y > Len(rows)
    /\ Len(rows) > 0
    /\ ~dirty

\* The string s with the char c put in front of its grapheme cluster at
\* column col (0-based), at its end when col is the number of clusters.
InsertedAt(s, col, c) ==
    LET g == Graphemes(s)
        m == Min(col, Len(g))
    IN  Concat(SubSeq(g, 1, m)) \o <<c>> \o Concat(SubSeq(g, m + 1, Len(g)))

\* What C11 says of an insert of the non-newline char c at column x of row
\* k (0-based), k <= row_count.  "Its length" is read both as the cached
\* length and as the number of clusters: either content is accepted.
C11_Inserted(k, x, c) ==
    IF k = Len(rows)
    THEN /\ Len(rows') = Len(rows) + 1
         /\ rows'[k + 1].string = <<c>>
         /\ rows'[k + 1].len = 1
         /\ \A i \in 1..k : rows'[i] = rows[i]
    ELSE /\ Len(rows') = Len(rows)
         /\ \A i \in 1..Len(rows) : i # k + 1 => rows'[i] = rows[i]
         /\ \/ rows'[k + 1].string =
                   InsertedAt(rows[k + 1].string, Min(x, rows[k + 1].len), c)
            \/ rows'[k + 1].string =
                   InsertedAt(rows[k + 1].string,
                              Min(x, GraphemeCount(rows[k + 1].string)), c)

\* C11: Buffer.insert of a non-newline char at an in-range row appends a
\* one-char row (position.y = row_count) or puts the char into row
\* position.y at column min(position.x, length) and changes nothing else.
\* (SpecFile)
C11_InsertChar ==
    [][(last'.op = "insert" /\ last'.c # NL /\ last'.at.y <= Len(rows))
         => C11_Inserted(last'.at.y, last'.at.x, last'.c)]_vars

\* C11 on buffers whose rows have a cached length equal to their number of
\* clusters: there File::insert does what C11 describes.
C11_InsertCharInSync ==
    [][(/\ last'.op = "insert" /\ last'.c # NL /\ last'.at.y <= Len(rows)
        /\ \A i \in 1..Len(rows) : rows[i].len = GraphemeCount(rows[i].string))
         => C11_Inserted(last'.at.y, last'.at.x, last'.c)]_vars

\* What C12 says of a newline inserted at column x of row k (0-based),
\* k <= row_count; a row past the end counts as empty.
C12_Split(k, x) ==
    LET old == IF k < Len(rows) THEN rows[k + 1].string ELSE <<>>
        g == Graphemes(old)
        m == Min(x, Len(g))
        rest == Concat(SubSeq(g, m + 1, Len(g)))
    IN  /\ Len(rows') = Len(rows) + 1
        /\ rows'[k + 1].string = Concat(SubSeq(g, 1, m))
        /\ \E n \in 0..Len(old) : rows'[k + 2].string = Spaces(n) \o rest
        /\ \A i \in 1..k : rows'[i] = rows[i]
        /\ \A j \in (k + 2)..Len(rows) : rows'[j + 1] = rows[j]

\* C12: Buffer.insert of a newline at an in-range position (end of buffer
\* included) adds exactly one row: row position.y keeps the clusters before
\* position.x, the new row at position.y + 1 holds the rest behind an
\* indentation prefix, other rows keep their content and order.  (SpecFile)
C12_InsertNewline ==
    [][(last'.op = "insert" /\ last'.c = NL /\ last'.at.y <= Len(rows))
         => C12_Split(last'.at.y, last'.at.x)]_vars

\* C12 away from the end of the buffer (position.y < row_count): there
\* File::insert_newline does what C12 describes.
C12_InsertNewlineInBuffer ==
    [][(last'.op = "insert" /\ last'.c = NL /\ last'.at.y < Len(rows))
         => C12_Split(last'.at.y, last'.at.x)]_vars

\* ---------------------------------------------------------- File::find
\* The (x, y) Positions, 0-based, at which query occurs in the buffer, under
\* the reading Within of "occurs".
Occurrences(Within(_, _, _, _), rs, query) ==
    {p \in UNION {{Position(c, k - 1) : c \in 0..Len(rs[k].string)} : k \in 1..Len(rs)} :
        Within(rs[p.y + 1].string, query, p.x, GraphemeCount(rs[p.y + 1].string))}

\* Row-major order on Positions.
Before(p, q) == p.y < q.y \/ (p.y = q.y /\ p.x <= q.x)

FirstOf(ps) ==
    IF ps = {} THEN NoPosition
    ELSE [some |-> TRUE, val |-> CHOOSE p \in ps : \A q \in ps : Before(p, q)]

LastOf(ps) ==
    IF ps = {} THEN NoPosition
    ELSE [some |-> TRUE, val |-> CHOOSE p \in ps : \A q \in ps : Before(q, p)]

\* The first occurrence at or after from, in row-major order.
ForwardExpected(Within(_, _, _, _), rs, query, from) ==
    FirstOf({p \in Occurrences(Within, rs, query) :
                /\ p.y >= from.y
                /\ p.y = from.y => p.x >= from.x})

\* The last occurrence in a row before from.y or, in row from.y, ending at
\* or before column from.x.
BackwardExpected(Within(_, _, _, _), rs, query, from) ==
    LastOf({p \in Occurrences(Within, rs, query) :
               \/ p.y < from.y
               \/ p.y = from.y /\ Within(rs[p.y + 1].string, query, p.x, from.x)})

\* C7: Buffer.find Forward with a non-empty query and from.y < row_count
\* returns the first occurrence in row-major order at or after from, and
\* none when there is no such occurrence (under at least one of the two
\* readings of "occurs").  (SpecSearch)
C7_FindForwardFirst ==
    (/\ last.op = "find"
     /\ last.direction = "Forward"
     /\ last.query # <<>>
     /\ last.at.y < Len(rows))
        => \/ last.res = ForwardExpected(CharwiseWithin, rows, last.query, last.at)
           \/ last.res = ForwardExpected(ClusterwiseWithin, rows, last.query, last.at)

\* C8: Buffer.find Backward with a non-empty query, from.y < row_count and
\* from.x <= length of row from.y returns the last occurrence in row-major
\* order that lies in a row before from.y or, in row from.y, ends at or
\* before column from.x; none when there is no such occurrence (under at
\* least one of the two readings of "occurs").  (SpecSearch)
C8_FindBackwardLast ==
    (/\ last.op = "find"
     /\ last.direction = "Backward"
     /\ last.query # <<>>
     /\ last.at.y < Len(rows)
     /\ last.at.x <= rows[last.at.y + 1].len)
        => \/ last.res = BackwardExpected(CharwiseWithin, rows, last.query, last.at)
           \/ last.res = BackwardExpected(ClusterwiseWithin, rows, last.query, last.at)

\* C7 and C8 on buffers in which every char is a cluster of its own: there
\* File::find returns what the claims describe.
FindPlainText ==
    (/\ last.op = "find"
     /\ last.query # <<>>
     /\ last.at.y < Len(rows)
     /\ \A k \in 1..Len(rows) : \A i \in 1..Len(rows[k].string) : rows[k].string[i] = "a")
        => IF last.direction = "Forward"
           THEN last.res = ForwardExpected(CharwiseWithin, rows, last.query, last.at)
           ELSE last.at.x <= rows[last.at.y + 1].len
                    => last.res = BackwardExpected(CharwiseWithin, rows, last.query, last.at)

\* C9: search returns none on an empty query and on an out-of-range start:
\* Row.find when start > row length, Buffer.find when from.y >= row_count
\* or from.x > length of row from.y.  (SpecSearch)
C9_FindNoneOutOfRange ==
    last.op = "find" =>
        /\ \A k \in 1..Len(rows) :
               last.at.x > rows[k].len
                   => Row_find(rows[k], last.query, last.at.x, last.direction) = None
        /\ (\/ last.query = <<>>
            \/ last.at.y >= Len(rows)
            \/ last.at.x > rows[last.at.y + 1].len) => last.res = NoPosition

\* ------------------------------------------------------------- Editor
\* C5: a Backspace handled with the caret at row 0, column 0 leaves the row
\* sequence and the caret as they were.  (SpecEditor)
C5_BackspaceAtOriginNoOp ==
    [][(last'.k = "Backspace" /\ cursor = Position(0, 0))
         => (rows' = rows /\ cursor' = cursor)]_vars

\* C5's case: Backspace was handled at the origin of a buffer whose first
\* row is not empty.
C5_Witness ==
    /\ last.k = "Backspace"
    /\ last.at = Position(0, 0)
    /\ cursor = Position(0, 0)
    /\ Len(rows) > 0
    /\ rows[1].len > 0
    /\ dirty

\* ------------------------------------------------------ Row::highlight
\* C13: with numbers, strings and line comments enabled, no match word and
\* carry-in false, Row.highlight on "abc" 123 // tail gives String on the
\* five positions of "abc", None on the space, Number on 123, None on the
\* next space, Comment from // to the end, and returns false.
\* (SpecHighlight)
C13_SampleLine ==
    (/\ last.op = "highlight"
     /\ row.string = StringNumberComment
     /\ last.hl.numbers /\ last.hl.strings /\ last.hl.comments
     /\ ~last.word.some
     /\ ~last.start_with_comment)
    => /\ row.highlight = Repeat("String", 5) \o <<"None">> \o Repeat("Number", 3)
                            \o <<"None">> \o Repeat("Comment", 7)
       /\ ~last.ret

\* C13's case: the line was highlighted under the options of a Rust file.
C13_Witness ==
    /\ last.op = "highlight"
    /\ row.string = StringNumberComment
    /\ last.hl = HighlightOptions_from("x.rs")
    /\ ~last.word.some
    /\ ~last.start_with_comment
    /\ Len(row.highlight) = 17
    /\ row.highlight[7] = "Number"

\* The runs C15 speaks of, as pairs <<i, j>> of 1-based first and last
\* position: maximal runs of non-separator chars that follow a separator.
KeywordRuns(chars) ==
    {ij \in (2..Len(chars)) \X (2..Len(chars)) :
        /\ ij[1] <= ij[2]
        /\ \A k \in ij[1]..ij[2] : ~is_separator(chars[k])
        /\ is_separator(chars[ij[1] - 1])
        /\ ij[2] = Len(chars) \/ is_separator(chars[ij[2] + 1])}

\* No position of the run lies in a comment or a literal.
OutsideCommentsAndLiterals(highlight, ij) ==
    \A k \in ij[1]..ij[2] :
        highlight[k] \notin {"Comment", "MlComment", "String", "Character"}

\* C15: outside comments and literals, a maximal run of non-separator chars
\* between a separator and a separator or the end of the row is Keyword1 on
\* all its positions if and only if the run is an entry of the primary
\* keyword list.  (SpecHighlight; calls without a match word and without a
\* carried comment)
C15_PrimaryKeyword ==
    (/\ last.op = "highlight"
     /\ ~last.word.some
     /\ ~last.start_with_comment
     /\ Len(row.highlight) = Len(row.string))
    => \A ij \in KeywordRuns(row.string) :
           OutsideCommentsAndLiterals(row.highlight, ij)
           => ((\A k \in ij[1]..ij[2] : row.highlight[k] = "Keyword1")
               <=> (\E n \in 1..Len(last.hl.keywords1) :
                       last.hl.keywords1[n] = SubSeq(row.string, ij[1], ij[2])))

\* C15 on rows without a multiline comment opener: there the keyword runs
\* are classified as C15 describes.
C15_PrimaryKeywordNoOpener ==
    (/\ last.op = "highlight"
     /\ ~last.word.some
     /\ ~last.start_with_comment
     /\ Len(row.highlight) = Len(row.string)
     /\ \A k \in 1..(Len(row.string) - 1) :
            ~(row.string[k] = "/" /\ row.string[k + 1] = "*"))
    => \A ij \in KeywordRuns(row.string) :
           OutsideCommentsAndLiterals(row.highlight, ij)
           => ((\A k \in ij[1]..ij[2] : row.highlight[k] = "Keyword1")
               <=> (\E n \in 1..Len(last.hl.keywords1) :
                       last.hl.keywords1[n] = SubSeq(row.string, ij[1], ij[2])))

\* The 1-based positions of chars inside the left-to-right non-overlapping
\* occurrences of w that start at position from or later.
RECURSIVE MatchPositions(_, _, _)
MatchPositions(chars, w, from) ==
    IF from + Len(w) - 1 > Len(chars)
    THEN {}
    ELSE IF SubSeq(chars, from, from + Len(w) - 1) = w
    THEN (from..(from + Len(w) - 1)) \cup MatchPositions(chars, w, from + Len(w))
    ELSE MatchPositions(chars, w, from + 1)

\* What C16 says of the array highlight left by a call with the match word
\* w, base being the array the same call leaves without a match word.
MatchOverlaid(chars, w, highlight, base) ==
    \A k \in 1..Len(chars) :
        IF k \in MatchPositions(chars, w, 1)
        THEN k <= Len(highlight) /\ highlight[k] = "Match"
        ELSE /\ k <= Len(highlight) <=> k <= Len(base)
             /\ k <= Len(highlight) => highlight[k] = base[k]

\* C16: after Row.highlight with a non-empty match word w, the positions
\* inside the left-to-right non-overlapping occurrences of w are Match and
\* every other position has the class the call gives without a match word,
\* also when the row is or ends inside a multiline comment.  (SpecHighlight)
C16_MatchOverlay ==
    (last.op = "highlight" /\ last.word.some /\ last.word.val # <<>>)
    => MatchOverlaid(row.string, last.word.val, row.highlight,
                     Row_highlight(row, last.hl, NoWord,
                                   last.start_with_comment).row.highlight)

\* C16 for the calls that return false: there the overlay is as C16
\* describes.
C16_MatchOverlayScanned ==
    (last.op = "highlight" /\ last.word.some /\ last.word.val # <<>> /\ ~last.ret)
    => MatchOverlaid(row.string, last.word.val, row.highlight,
                     Row_highlight(row, last.hl, NoWord,
                                   last.start_with_comment).row.highlight)

\* C17: after Row.highlight the highlight array holds one class per char of
\* the row.  (SpecHighlight)
C17_OneClassPerChar ==
    last.op = "highlight" => Len(row.highlight) = Len(row.string)

\* C17 for the calls that do not start inside a multiline comment: there
\* the array has one class per char.
C17_OneClassPerCharNoCarry ==
    (last.op = "highlight" /\ ~(last.start_with_comment /\ last.hl.multiline_comments))
    => Len(row.highlight) = Len(row.string)

\* ----------------------------------------------------- File::highlight
\* s holds a comment opener with no close behind it.
UnclosedOpener(s) ==
    \E i \in 1..(Len(s) - 1) :
        /\ s[i] = "/" /\ s[i + 1] = "*"
        /\ \A j \in (i + 2)..(Len(s) - 1) : ~(s[j] = "*" /\ s[j + 1] = "/")

\* s holds no comment opener.
NoOpener(s) == \A i \in 1..(Len(s) - 1) : ~(s[i] = "/" /\ s[i + 1] = "*")

\* The classes the normal rules give the chars of s behind position n
\* (1-based): those of the rest of the row highlighted on its own, or behind
\* the separator that position n holds.
NormalAfter(s, n, hl) ==
    {Row_highlight(Row_from(SubSeq(s, n + 1, Len(s))), hl, NoWord, FALSE).row.highlight,
     Tail(Row_highlight(Row_from(SubSeq(s, n, Len(s))), hl, NoWord, FALSE).row.highlight)}

\* What C14 says of row k + 1 (1-based), whose first close ends at the
\* 1-based position n.
C14_Closed(r, n, hl) ==
    /\ Len(r.highlight) = Len(r.string)
    /\ \A c \in 1..n : r.highlight[c] = "MlComment"
    /\ SubSeq(r.highlight, n + 1, Len(r.string)) \in NormalAfter(r.string, n, hl)

\* C14: with multiline comments enabled, if row k opens a comment it does
\* not close and row k+1 holds a close, then after Buffer.highlight over
\* both rows the columns of row k+1 up to and including the close are
\* MultilineComment and the columns behind it have their normal class.
\* (SpecFileHighlight; calls without a match word, row k being the first
\* row with an opener)
C14_CommentCarriedToClose ==
    (last.op = "highlight" /\ ~last.word.some /\ hl_opts.multiline_comments)
    => \A k \in 1..(Len(rows) - 1) :
           (/\ k + 1 <= File_highlight_until(rows, last.until)
            /\ \A i \in 1..(k - 1) : NoOpener(rows[i].string)
            /\ UnclosedOpener(rows[k].string)
            /\ CloseAt(rows[k + 1].string, 1) # {})
           => C14_Closed(rows[k + 1], MinOf(CloseAt(rows[k + 1].string, 1)) + 1, hl_opts)

\* C14 without the closing '/' and for an opener in the first two columns
\* of row k: there the columns of row k+1 in front of the closing '/' are
\* MultilineComment.
C14_CarriedToCloseStar ==
    (last.op = "highlight" /\ ~last.word.some /\ hl_opts.multiline_comments)
    => \A k \in 1..(Len(rows) - 1) :
           (/\ k + 1 <= File_highlight_until(rows, last.until)
            /\ \A i \in 1..(k - 1) : NoOpener(rows[i].string)
            /\ UnclosedOpener(rows[k].string)
            /\ Len(rows[k].string) >= 2
            /\ \E i \in 1..2 : rows[k].string[i] = "/" /\ rows[k].string[i + 1] = "*"
            /\ CloseAt(rows[k + 1].string, 1) # {})
           => \A c \in 1..MinOf(CloseAt(rows[k + 1].string, 1)) :
                  rows[k + 1].highlight[c] = "MlComment"

\* The carry-in C18 gives row i (1-based) of the rows rs.
RECURSIVE C18_CarryIn(_, _, _, _)
C18_CarryIn(rs, hl, word, i) ==
    IF i = 1 THEN FALSE
    ELSE Row_highlight(rs[i - 1], hl, word, C18_CarryIn(rs, hl, word, i - 1)).ret

\* C18: Buffer.highlight(match_word, limit) runs Row.highlight on the rows
\* 0 .. min(limit+1, row_count)-1 in order, with carry-in false for row 0
\* and the return value of the row before for each later row; the rows at
\* or beyond the bound keep their highlight arrays; a second call with the
\* same arguments changes nothing.  (SpecFileHighlight)
C18_HighlightThreadsCarry ==
    [][last'.op = "highlight" =>
         LET bound == IF last'.until.some
                      THEN Min(last'.until.val + 1, Len(rows))
                      ELSE Len(rows)
         IN  /\ Len(rows') = Len(rows)
             /\ \A i \in 1..bound :
                    rows'[i] = Row_highlight(rows[i], hl_opts, last'.word,
                                   C18_CarryIn(rows, hl_opts, last'.word, i)).row
             /\ \A i \in (bound + 1)..Len(rows) : rows'[i] = rows[i]
             /\ File_highlight(rows', hl_opts, last'.word, last'.until) = rows']_vars

\* C18's case: a call limited to row 0 carried a comment out of row 0 and
\* left row 1 with the Match classes of an earlier call.
C18_Witness ==
    /\ last.op = "highlight"
    /\ last.until = Some(0)
    /\ ~last.word.some
    /\ hl_opts.multiline_comments
    /\ Len(rows) = 2
    /\ rows[1].highlight = <<"MlComment", "MlComment">>
    /\ \E c \in 1..Len(rows[2].highlight) : rows[2].highlight[c] = "Match"

\* ---------------------------------------------------------------- dirty
C19_SavedToNamedFile == last'.op = "save" /\ last'.ok /\ filename' # NoName

C19_Step ==
    /\ (last'.op \in {"insert", "delete"} /\ last'.in_range) => dirty'
    /\ C19_SavedToNamedFile => ~dirty'
    /\ (dirty /\ ~C19_SavedToNamedFile) => dirty'

\* C19: the dirty flag is false right after load and right after a
\* successful save to a named file; every File::insert or File::delete at an
\* in-range row index sets it; once true it stays true through every insert,
\* delete, find, highlight and unsuccessful save until the next successful
\* save.
C19_DirtyFlag == ~dirty /\ [][C19_Step]_vars

C19_Witness ==
    /\ last.op = "save" /\ last.ok /\ last.dirty
    /\ filename # NoName
    /\ rows # <<>>
    /\ ~dirty

\* ------------------------------------------------- HighlightOptions on save
SameTable(a, b) ==
    /\ a.numbers = b.numbers
    /\ a.strings = b.strings
    /\ a.characters = b.characters
    /\ a.comments = b.comments
    /\ a.multiline_comments = b.multiline_comments
    /\ a.keywords1 = b.keywords1
    /\ a.keywords2 = b.keywords2

C20_SavedUnderNewName ==
    last.op = "save" /\ last.ok /\ last.name = NoName /\ filename # NoName

\* C20: after a successful save that gave an unnamed buffer a filename, the
\* feature flags and both keyword lists of the buffer's HighlightOptions are
\* those of the table entry HighlightOptions::from has for that filename.
C20_SaveRebuildsOptions ==
    C20_SavedUnderNewName => SameTable(hl_opts, HighlightOptions_from(filename))

\* What File::save does instead: only file_type follows the new filename.
C20_SaveSetsFileTypeOnly ==
    C20_SavedUnderNewName =>
        hl_opts = [HighlightOptions_default EXCEPT
                       !.file_type = HighlightOptions_set_filetype(filename)]

\* -------------------------------------------- Row::highlight, comments
\* The i chars in front of column i hold no slash and no quote: the scan
\* reaches column i outside every comment and literal.
PlainBefore(s, i) == \A k \in 1..i : s[k] \notin {"/", "\"", "'"}

\* C21: with multiline comments enabled and carry-in true, Row.highlight on
\* a row without a closing */ returns true, whatever the length of the row.
\* (SpecHighlight)
C21_OpenCommentStaysOpen ==
    (/\ last.op = "highlight"
     /\ last.hl.multiline_comments
     /\ last.start_with_comment
     /\ CloseAt(row.string, 1) = {})
    => last.ret

\* C21 on the rows that hold at least one char.
C21_OpenCommentStaysOpenNonEmpty ==
    (/\ last.op = "highlight"
     /\ last.hl.multiline_comments
     /\ last.start_with_comment
     /\ row.string # <<>>
     /\ CloseAt(row.string, 1) = {})
    => last.ret

\* An opener at column i that the scan reaches, with no */ behind it.
C22_UnterminatedAt(s, i) ==
    /\ PlainBefore(s, i)
    /\ s[i + 1] = "/"
    /\ s[i + 2] = "*"
    /\ CloseAt(s, i + 3) = {}

\* C22: with multiline comments enabled and carry-in false, an opener at any
\* column i without a closing */ behind it makes every position from i to
\* the end of the row MlComment and Row.highlight return true.
\* (SpecHighlight; calls without a match word)
C22_OpenerToRowEnd ==
    (/\ last.op = "highlight"
     /\ last.hl.multiline_comments
     /\ ~last.start_with_comment
     /\ ~last.word.some)
    => \A i \in 0..(Len(row.string) - 2) :
           C22_UnterminatedAt(row.string, i)
           => /\ last.ret
              /\ Len(row.highlight) = Len(row.string)
              /\ \A k \in (i + 1)..Len(row.string) : row.highlight[k] = "MlComment"

\* C22 for an opener in column 0 or 1 that is not followed by a slash.
C22_OpenerInFirstColumns ==
    (/\ last.op = "highlight"
     /\ last.hl.multiline_comments
     /\ ~last.start_with_comment
     /\ ~last.word.some)
    => \A i \in 0..Min(1, Len(row.string) - 2) :
           (/\ C22_UnterminatedAt(row.string, i)
            /\ (i + 3 <= Len(row.string) => row.string[i + 3] # "/"))
           => /\ last.ret
              /\ Len(row.highlight) = Len(row.string)
              /\ \A k \in (i + 1)..Len(row.string) : row.highlight[k] = "MlComment"

\* The only opener of the row stands at column i, the scan reaches it, and
\* its closing slash stands at column n.
C23_ClosedAt(s, i, n) ==
    /\ PlainBefore(s, i)
    /\ s[i + 1] = "/"
    /\ s[i + 2] = "*"
    /\ CloseAt(s, i + 3) # {}
    /\ n = MinOf(CloseAt(s, i + 3))
    /\ \A k \in (n + 2)..Len(s) : s[k] \notin {"/", "\"", "'"}

C23_Closed(r, i, n, ret) ==
    /\ ~ret
    /\ Len(r.highlight) = Len(r.string)
    /\ \A k \in (i + 1)..(n + 1) : r.highlight[k] = "MlComment"
    /\ \A k \in (n + 2)..Len(r.string) : r.highlight[k] # "MlComment"

\* C23: with multiline comments enabled and carry-in false, an opener with a
\* closing */ later in the row makes the span from the opener through the
\* close MlComment, the scan goes on behind the close and Row.highlight
\* returns false, wherever in the row the close stands.
\* (SpecHighlight; calls without a match word, rows with one opener)
C23_ClosedInRow ==
    (/\ last.op = "highlight"
     /\ last.hl.multiline_comments
     /\ ~last.start_with_comment
     /\ ~last.word.some)
    => \A i \in 0..(Len(row.string) - 2), n \in 0..(Len(row.string) - 1) :
           C23_ClosedAt(row.string, i, n) => C23_Closed(row, i, n, last.ret)

\* C23 when at least two chars of the row lie outside the comment and the
\* opener is not followed by a slash.
C23_ClosedInLongerRow ==
    (/\ last.op = "highlight"
     /\ last.hl.multiline_comments
     /\ ~last.start_with_comment
     /\ ~last.word.some)
    => \A i \in 0..(Len(row.string) - 2), n \in 0..(Len(row.string) - 1) :
           (/\ C23_ClosedAt(row.string, i, n)
            /\ row.string[i + 3] # "/"
            /\ n - i + 1 < Len(row.string) - 1)
           => C23_Closed(row, i, n, last.ret)

\* C24: with line comments enabled, a // that the scan reaches outside
\* multiline comments and literals makes every position from there to the
\* end of the row Comment (Match where the match word overlays it), and
\* Row.highlight returns false.  (SpecHighlight; carry-in false)
C24_LineComment ==
    (/\ last.op = "highlight"
     /\ last.hl.comments
     /\ ~last.start_with_comment)
    => \A i \in 0..(Len(row.string) - 2) :
           (/\ PlainBefore(row.string, i)
            /\ row.string[i + 1] = "/"
            /\ row.string[i + 2] = "/")
           => /\ ~last.ret
              /\ Len(row.highlight) = Len(row.string)
              /\ \A k \in (i + 1)..Len(row.string) :
                     \/ row.highlight[k] = "Comment"
                     \/ /\ row.highlight[k] = "Match"
                        /\ last.word.some
                        /\ k \in MatchPositions(row.string, last.word.val, 1)

\* C24's case: a keyword behind the // of a row, under options with line
\* comments and keywords.
C24_Witness ==
    /\ last.op = "highlight"
    /\ last.hl.comments
    /\ last.hl.multiline_comments
    /\ last.hl.keywords1 # <<>>
    /\ ~last.start_with_comment
    /\ ~last.word.some
    /\ row.string = <<"/", "/", "f">>
    /\ row.highlight = <<"Comment", "Comment", "Comment">>
    /\ ~last.ret

\* -------------------------------------------- Row::highlight, literals
\* The row s with the char of column i replaced by c.
C25_Replaced(r, i, c) == Row_from([r.string EXCEPT ![i + 1] = c])

\* The first quote of kind quote stands at column i, the scan reaches it,
\* and no quote of that kind follows it.
C25_OpenQuoteAt(s, i, quote) ==
    /\ PlainBefore(s, i)
    /\ s[i + 1] = quote
    /\ \A k \in (i + 2)..Len(s) : s[k] # quote

\* What C25 says of a quote without a closing quote: it is None, no position
\* has the class of the literal, and the rest of the row is classified as
\* if the quote were an ordinary char.
C25_Degrades(r, i, class, hl, ret) ==
    /\ r.highlight[i + 1] = "None"
    /\ \A k \in 1..Len(r.highlight) : r.highlight[k] # class
    /\ r.highlight = Row_highlight(C25_Replaced(r, i, "_"), hl, NoWord, FALSE).row.highlight
    /\ ret = Row_highlight(C25_Replaced(r, i, "_"), hl, NoWord, FALSE).ret

\* The first quote of kind quote stands at column i, the scan reaches it,
\* and the next quote of that kind stands at column j.
C25_ClosedQuoteAt(s, i, j, quote) ==
    /\ PlainBefore(s, i)
    /\ i < j
    /\ s[i + 1] = quote
    /\ s[j + 1] = quote
    /\ \A k \in (i + 2)..j : s[k] # quote

C25_Literal(r, quote, class, hl, ret) ==
    /\ \A i \in 0..(Len(r.string) - 1) :
           C25_OpenQuoteAt(r.string, i, quote) => C25_Degrades(r, i, class, hl, ret)
    /\ \A i \in 0..(Len(r.string) - 1), j \in 0..(Len(r.string) - 1) :
           C25_ClosedQuoteAt(r.string, i, j, quote)
           => \A k \in (i + 1)..(j + 1) : r.highlight[k] = class

\* C25: with string (character) literals enabled, a quote (apostrophe)
\* without a closing one later in the row is None, no position becomes
\* String (Character) and the scan resumes at the next char under the normal
\* rules; a quote with a closing one makes the span through the close
\* String (Character).  (SpecHighlight; calls without a match word and
\* without a carried comment)
C25_QuotedLiterals ==
    (/\ last.op = "highlight"
     /\ ~last.word.some
     /\ ~last.start_with_comment)
    => /\ last.hl.strings => C25_Literal(row, "\"", "String", last.hl, last.ret)
       /\ last.hl.characters => C25_Literal(row, "'", "Character", last.hl, last.ret)

\* C25's case: an unterminated quote in front of a keyword and a number,
\* under the options of a Rust file.
C25_Witness ==
    /\ last.op = "highlight"
    /\ last.hl = HighlightOptions_from("x.rs")
    /\ ~last.word.some
    /\ ~last.start_with_comment
    /\ row.string = <<"\"", " ", "f", "n", " ", "1">>
    /\ row.highlight = <<"None", "None", "Keyword1", "Keyword1", "None", "Number">>
    /\ ~last.ret

\* ------------------------------------- Row::highlight, start of the row
\* The token that begins at column 0: the chars up to the first separator.
C26_FirstToken(s) ==
    SubSeq(s, 1, MinOf({j \in 0..Len(s) : j = Len(s) \/ is_separator(s[j + 1])}))

C26_AllOf(highlight, n, class) ==
    /\ n <= Len(highlight)
    /\ \A k \in 1..n : highlight[k] = class

C26_Listed(keywords, w) == \E n \in 1..Len(keywords) : keywords[n] = w

\* C26, first part: a primary or secondary keyword or a run of ASCII digits
\* that begins at column 0 and ends at a separator or at the end of the row
\* is Keyword1, Keyword2 or Number.  (SpecHighlight; calls without a match
\* word and without a carried comment)
C26_RowStartIsSeparator ==
    (/\ last.op = "highlight"
     /\ ~last.word.some
     /\ ~last.start_with_comment
     /\ C26_FirstToken(row.string) # <<>>)
    => /\ C26_Listed(last.hl.keywords1, C26_FirstToken(row.string))
          => C26_AllOf(row.highlight, Len(C26_FirstToken(row.string)), "Keyword1")
       /\ (/\ C26_Listed(last.hl.keywords2, C26_FirstToken(row.string))
           /\ ~C26_Listed(last.hl.keywords1, C26_FirstToken(row.string)))
          => C26_AllOf(row.highlight, Len(C26_FirstToken(row.string)), "Keyword2")
       /\ (/\ last.hl.numbers
           /\ \A k \in 1..Len(C26_FirstToken(row.string)) :
                  is_ascii_digit(C26_FirstToken(row.string)[k]))
          => C26_AllOf(row.highlight, Len(C26_FirstToken(row.string)), "Number")

\* C26, second part: a position is Keyword1, Keyword2 or Number only if a
\* separator precedes its token in the row.
C26_OnlyBehindSeparator ==
    (last.op = "highlight" /\ ~last.word.some)
    => \A k \in 1..Len(row.highlight) :
           row.highlight[k] \in {"Keyword1", "Keyword2", "Number"}
           => \E j \in 1..(k - 1) :
                  /\ is_separator(row.string[j])
                  /\ \A m \in (j + 1)..k : ~is_separator(row.string[m])

\* ------------------------------------------- Row::insert / Row::delete
\* The string s without its grapheme cluster at column col (0-based).
C27_DeletedAt(s, col) ==
    Concat(SubSeq(Graphemes(s), 1, col))
        \o Concat(SubSeq(Graphemes(s), col + 2, GraphemeCount(s)))

\* What C27 says of the row r left by insert(at, c) and by delete(at) on
\* the row pre.
C27_Reference(op, pre, at, c, r) ==
    /\ op = "insert"
       => /\ r.string = InsertedAt(pre.string, at, c)
          /\ r.len = pre.len + 1
    /\ (op = "delete" /\ at < pre.len)
       => /\ r.string = C27_DeletedAt(pre.string, at)
          /\ r.len = pre.len - 1
    /\ (op = "delete" /\ at >= pre.len)
       => /\ r.string = pre.string
          /\ r.len = pre.len

\* C27: Row.insert(at, c) gives content[0..at) ++ [c] ++ content[at..) for
\* at < length and content ++ [c] for at >= length, with the length one
\* more; Row.delete(at) removes the grapheme at index at and makes the
\* length one less for at < length, and changes nothing for at >= length.
\* (SpecRow)
C27_InsertDeleteReference ==
    last.op \in {"insert", "delete"}
    => C27_Reference(last.op, last.pre, last.at, last.c, row)

\* C27 on rows whose cached length is their number of grapheme clusters.
C27_InsertDeleteReferenceInSync ==
    (/\ last.op \in {"insert", "delete"}
     /\ last.pre.len = GraphemeCount(last.pre.string))
    => C27_Reference(last.op, last.pre, last.at, last.c, row)

\* ------------------------------------------------ File::insert_newline
C28_Indented(old, new) ==
    /\ Row_get_prefix_len(new, <<" ">>) = Row_get_prefix_len(old, <<" ">>)
    /\ new.len = GraphemeCount(new.string)

\* C28: after Buffer.insert of a newline at (x, y) with y < row_count, the
\* new row y + 1 begins with exactly as many spaces as row y began with
\* before the insert, for every column x, and its cached length is its
\* number of grapheme clusters.  (SpecFile)
C28_AutoIndent ==
    [][(last'.op = "insert" /\ last'.c = NL /\ last'.at.y < Len(rows))
         => C28_Indented(rows[last'.at.y + 1], rows'[last'.at.y + 2])]_vars

\* The part of the row s from column x on does not begin with a space or
\* with a combining char.
C28_PlainTail(s, x) ==
    x < GraphemeCount(s) => Graphemes(s)[x + 1][1] \notin {" ", "M"}

\* C28 for a split column from which the row does not go on with a space or
\* a combining char.
C28_AutoIndentPlainTail ==
    [][(/\ last'.op = "insert" /\ last'.c = NL /\ last'.at.y < Len(rows)
        /\ C28_PlainTail(rows[last'.at.y + 1].string, last'.at.x))
         => C28_Indented(rows[last'.at.y + 1], rows'[last'.at.y + 2])]_vars

\* ------------------------------------------------ Editor, key sequences
\* C29: no sequence of key events, from an empty or a loaded buffer with
\* the cursor at (0, 0), makes a File::insert or File::delete of the editor
\* access a row index >= row_count: the editor never fails.  (SpecEditor)
C29_NoFailure == ~panicked

\* The failures of the editor: the File::delete of Key::Delete or
\* Key::Backspace at a cursor on the line behind the last row.
C29_FailsOnlyOnDeleteAtEnd ==
    panicked => (last.k \in {"Delete", "Backspace"} /\ cursor.y = Len(rows))

\* C30: after every handled key event the cursor is a legal Position:
\* cursor.y <= row_count and cursor.x <= the length of row cursor.y, taken
\* as 0 when cursor.y = row_count.  (SpecEditor)
C30_CursorLegal ==
    ~panicked
    => /\ cursor.y <= Len(rows)
       /\ cursor.x <= (IF cursor.y < Len(rows) THEN rows[cursor.y + 1].len ELSE 0)

\* The cursor never leaves the rows and the line behind them.
C30_CursorRowLegal == cursor.y <= Len(rows)

\* C30 for the keys that neither move the cursor vertically nor delete.
C30_CursorLegalHorizontal ==
    [][(/\ ~panicked'
        /\ last'.k \in {"Char", "Left", "Right", "Home", "End", "Ctrl"}
        /\ cursor.x <= (IF cursor.y < Len(rows) THEN rows[cursor.y + 1].len ELSE 0))
         => cursor'.x <= (IF cursor'.y < Len(rows') THEN rows'[cursor'.y + 1].len ELSE 0)]_vars

\* ---------------------------------------------------------------- C31
\* The caret lies inside the scrolled window.
C31_CaretInWindow ==
    /\ offset.y <= cursor.y
    /\ cursor.y < offset.y + TermHeight
    /\ offset.x <= cursor.x
    /\ cursor.x < offset.x + TermWidth

\* The rows (1-based) Editor::draw_rows draws with the window at off.
C31_Drawn(rs, off) == {i \in 1..Len(rs) : off.y < i /\ i <= off.y + TermHeight}

\* C31: when the main loop is back at its render after a key event, the
\* caret lies inside the scrolled window (offset.y <= cursor.y < offset.y +
\* height, offset.x <= cursor.x < offset.x + width), and every existing row
\* the render draws is within the rows its highlight pass runs over and
\* leaves the pass highlighted as a pass over the whole file would leave it.
C31_RenderDrawsHighlightedWindow ==
    [][(last # NoKey /\ last' = NoKey) =>
          /\ C31_CaretInWindow
          /\ ~should_quit =>
                 \A i \in C31_Drawn(rows, offset) :
                     /\ i <= File_highlight_until(rows, Some(offset.y + TermHeight))
                     /\ rows'[i] = File_highlight(rows, hl_opts, highlighted_word, None)[i]
                     /\ Len(rows'[i].highlight) = Len(rows'[i].string)]_vars

\* A render has drawn a row of a window scrolled down by a key event.
C31_Witness ==
    /\ last = NoKey
    /\ ~should_quit
    /\ offset.y > 0
    /\ \E i \in C31_Drawn(rows, offset) :
           rows[i].len > 0 /\ Len(rows[i].highlight) = Len(rows[i].string)

\* A key event has scrolled the window to the right.
C31_WitnessHorizontal == last # NoKey /\ ~panicked /\ offset.x > 0 /\ C31_CaretInWindow

\* ---------------------------------------------------------------- C32
\* The step in which the main loop is through with the key it read.
C32_KeyEvent ==
    \/ last = NoKey /\ last' # NoKey /\ last'.k # "Prompt"
    \/ last.k = "Prompt" /\ last'.k = "Ctrl"

\* C32: quit confirmation.  Of the key events of the main loop only Ctrl-Q
\* sets should_quit; with a clean buffer the first Ctrl-Q sets it; with a
\* dirty buffer a Ctrl-Q sets it exactly when it is the fourth Ctrl-Q in a
\* row, and each of the three before it changes nothing but the counter,
\* which it decrements after naming in its warning the presses still needed
\* (the old counter); any other key event restores the counter to 3.
C32_QuitConfirmation ==
    [][C32_KeyEvent =>
          IF last'.k = "Ctrl" /\ last'.c = "q"
          THEN IF dirty
               THEN /\ should_quit' <=> ctrl_q_run' = 4
                    /\ ~should_quit' =>
                           /\ quit_times = 4 - ctrl_q_run'
                           /\ quit_times' = quit_times - 1
                           /\ UNCHANGED <<rows, dirty, cursor, offset, highlighted_word>>
               ELSE should_quit'
          ELSE /\ ~should_quit'
               /\ ~panicked' => quit_times' = HECTOR_QUIT_TIMES]_vars

\* Whatever the step, should_quit stays unless a Ctrl-Q of the main loop
\* sets it.
C32_OnlyCtrlQQuits ==
    [][should_quit' # should_quit =>
          C32_KeyEvent /\ last'.k = "Ctrl" /\ last'.c = "q" /\ should_quit']_vars

\* The fourth Ctrl-Q in a row has ended the editor on a dirty buffer.
C32_Witness == should_quit /\ dirty /\ ctrl_q_run = 4 /\ last.k = "Ctrl" /\ last.c = "q"

\* Another key between two Ctrl-Q warnings has restored the counter.
C32_WitnessRestored ==
    dirty /\ ~should_quit /\ ctrl_q_run = 0 /\ last.k = "Left" /\ quit_times = HECTOR_QUIT_TIMES

\* ---------------------------------------------------------------- C33
\* The text of the buffer rows: what File::save would write.
C33_Text(rs) == [i \in 1..Len(rs) |-> rs[i].string]

\* C33: a search session that ends with Escape or with an empty query
\* leaves the caret and the scroll offset as they were when Ctrl-F was
\* read, whatever keys the prompt read in between; every session, cancelled
\* or accepted, ends with the highlighted word cleared, and none of its
\* steps changes the text of the rows or the dirty flag; the render that
\* follows the session leaves no Match class in the rows its highlight pass
\* runs over.
C33_SearchLeavesNoTrace ==
    [][/\ (last.k = "Prompt" \/ last'.k = "Prompt") =>
              /\ C33_Text(rows') = C33_Text(rows)
              /\ dirty' = dirty
       /\ (last.k = "Prompt" /\ last'.k = "Ctrl") =>
              /\ highlighted_word' = NoWord
              /\ last'.msg = <<>> => cursor' = last.at /\ offset' = last.off
       /\ (last.k = "Ctrl" /\ last.c = "f" /\ last' = NoKey) =>
              \A i \in 1..File_highlight_until(rows, Some(offset.y + TermHeight)) :
                  \A j \in 1..Len(rows'[i].highlight) : rows'[i].highlight[j] # "Match"]_vars

\* A session cancelled by Esc after a query was typed and shown: the caret
\* and a scrolled window are back where they were, matches still marked in
\* the rows.
C33_Witness ==
    /\ last.k = "Ctrl"
    /\ last.c = "f"
    /\ last.msg = <<>>
    /\ cursor = last.at
    /\ offset = last.off
    /\ offset # Position(0, 0)
    /\ \E i \in 1..Len(rows) : \E j \in 1..Len(rows[i].highlight) :
           rows[i].highlight[j] = "Match"

\* In the middle of a session the caret and the window are away from where
\* they were saved.
C33_WitnessMoved == last.k = "Prompt" /\ ~panicked /\ cursor # last.at /\ offset # last.off

\* An accepted session: the caret stays on the match found.
C33_WitnessAccepted ==
    last.k = "Ctrl" /\ last.c = "f" /\ last.msg # <<>> /\ cursor # last.at /\ dirty

\* The render after a session has wiped the Match class out of a row.
C33_WitnessWiped ==
    /\ last = NoKey
    /\ highlighted_word = NoWord
    /\ \E i \in C31_Drawn(rows, offset) :
           /\ \E j \in 1..Len(rows[i].string) : rows[i].string[j] = "a"
           /\ \A j \in 1..Len(rows[i].highlight) : rows[i].highlight[j] # "Match"

=============================================================================
